---- MODULE Spec2Model ----
\* State-machine model of the async_sunspec2 engine:
\*   types.py          base-type decoders, apply_scale, precision_from_sf
\*   parser.py         SunSpecParser.parse
\*   model_registry.py ModelRegistry.get_by_id
\*   scanner.py        AsyncSunSpecClient: connect, close, scan, read_model,
\*                     read_all
\* Python values are tagged records: None is [k |-> "none"], an int is
\* [k |-> "int", neg, mag] with mag its magnitude as big-endian 16-bit
\* limbs (64-bit values do not fit the checker's integers), a str is
\* [k |-> "str", s] with s the sequence of its character codes.
EXTENDS Integers, Sequences, FiniteSets, TLC

\* ------------------------------------------------------------------------
\* Python values
\* ------------------------------------------------------------------------

None == [k |-> "none"]

Some(x) == [k |-> "some", v |-> x]

IntV(neg, mag) == [k |-> "int", neg |-> neg, mag |-> mag]

StrV(s) == [k |-> "str", s |-> s]

IsInt(x) == x.k = "int"

Min(a, b) == IF a <= b THEN a ELSE b

Max(a, b) == IF a >= b THEN a ELSE b

WORD == 256 * 256

\* v & 0xFFFF on one register
Mask16(w) == w % WORD

AllZero(limbs) == \A i \in 1..Len(limbs) : limbs[i] = 0

\* The operators below that run a loop bind their arguments once, as values,
\* in the form  CHOOSE r \in {body : x \in {arg}} : TRUE  (the one element of
\* a one-element set): each loop pass then costs one evaluation of its state.

\* int(x) of a Python int; a magnitude of more than one limb is reported as
\* 16 * WORD, beyond every register count (it only occurs as a repeat count)
ToInt(x) ==
    LET n == Len(x.mag)
        low == IF AllZero(SubSeq(x.mag, 1, n - 1)) THEN x.mag[n] ELSE 16 * WORD
    IN  IF x.neg THEN 0 - low ELSE low

\* ------------------------------------------------------------------------
\* types.py
\* ------------------------------------------------------------------------

INVALID_INT16 == 32768

INVALID_UINT16 == 65535

\* 2^bits - v on limbs: complement every limb and add one (v # 0)
AddOne(limbs) ==
    LET n == Len(limbs)
        stop == {i \in 1..n : limbs[i] # WORD - 1}
        j == IF stop = {} THEN 0 ELSE CHOOSE i \in stop : \A h \in stop : h <= i
    IN  [i \in 1..n |-> IF i < j THEN limbs[i]
                        ELSE IF i = j THEN limbs[i] + 1
                        ELSE 0]

Complement(limbs) == [i \in 1..Len(limbs) |-> (WORD - 1) - limbs[i]]

\* _to_signed(v, bits) with v given as bits/16 masked limbs
to_signed(limbs) ==
    IF limbs[1] >= 32768
    THEN IntV(TRUE, AddOne(Complement(limbs)))
    ELSE IntV(FALSE, limbs)

DecodeResult(value, regs_used) ==
    [err |-> "", value |-> value, regs_used |-> regs_used]

Raise(e) == [err |-> e]

\* the first n registers, masked (regs[i] & 0xFFFF)
Limbs(regs, n) == [i \in 1..n |-> Mask16(regs[i])]

\* signed decoders: decode_int16, decode_int32, decode_int64
decode_signed(regs, n) ==
    IF Len(regs) < n THEN Raise("IndexError")
    ELSE LET v == to_signed(Limbs(regs, n))
             invalid == to_signed(<<INVALID_INT16>> \o [i \in 1..(n - 1) |-> 0])
         IN  IF v = invalid THEN DecodeResult(None, n) ELSE DecodeResult(v, n)

\* faulty variant: only the first register is compared with the sentinel
decode_unsigned_first(regs, n) ==
    IF Len(regs) < n THEN Raise("IndexError")
    ELSE LET v == Limbs(regs, n)
         IN  IF v[1] = INVALID_UINT16
             THEN DecodeResult(None, n)
             ELSE DecodeResult(IntV(FALSE, v), n)

\* unsigned decoders: decode_uint16, decode_uint32, decode_uint64
decode_unsigned(regs, n) ==
    IF Len(regs) < n THEN Raise("IndexError")
    ELSE LET v == Limbs(regs, n)
         IN  IF v = [i \in 1..n |-> INVALID_UINT16]
             THEN DecodeResult(None, n)
             ELSE DecodeResult(IntV(FALSE, v), n)

decode_int16(regs) == decode_signed(regs, 1)

decode_uint16(regs) == decode_unsigned(regs, 1)

decode_enum16(regs) == decode_uint16(regs)

decode_bitfield16(regs) == decode_uint16(regs)

decode_int32(regs) == decode_signed(regs, 2)

decode_uint32(regs) == decode_unsigned(regs, 2)

decode_acc32(regs) == decode_uint32(regs)

decode_int64(regs) == decode_signed(regs, 4)

decode_uint64(regs) == decode_unsigned(regs, 4)

decode_acc64(regs) == decode_uint64(regs)

decode_sunssf(regs) == decode_int16(regs)

\* faulty variant: low byte first
BytesOf_swapped(regs) ==
    [i \in 1..(2 * Len(regs)) |->
        LET w == Mask16(regs[(i + 1) \div 2])
        IN  IF i % 2 = 1 THEN w % 256 ELSE (w \div 256) % 256]

\* bytes of a register sequence, high byte first
BytesOf(regs) ==
    [i \in 1..(2 * Len(regs)) |->
        LET w == Mask16(regs[(i + 1) \div 2])
        IN  IF i % 2 = 1 THEN (w \div 256) % 256 ELSE w % 256]

IsAscii(b) == b < 128

\* bytes.decode("ascii", errors="ignore"): non-ASCII bytes are dropped
AsciiIgnore(bs) == SelectSeq(bs, IsAscii)

\* str.rstrip("\x00\x20")
RStrip(s) ==
    LET keep == {i \in 1..Len(s) : s[i] \notin {0, 32}}
    IN  IF keep = {} THEN << >>
        ELSE SubSeq(s, 1, CHOOSE i \in keep : \A h \in keep : h <= i)

decode_string(regs, size_bytes) ==
    LET n_regs == (size_bytes + 1) \div 2
    IN  IF Len(regs) < n_regs THEN Raise("IndexError")
        ELSE CHOOSE r \in
               {DecodeResult(StrV(RStrip(s)), n_regs) :
                  s \in {AsciiIgnore(SubSeq(BytesOf(SubSeq(regs, 1, n_regs)),
                                            1, size_bytes))}} : TRUE

DECODERS ==
    {"int16", "uint16", "enum16", "bitfield16", "int32", "uint32", "acc32",
     "int64", "uint64", "acc64", "sunssf"}

\* size_bytes is None or Some(n)
decode_value(typ, regs, size_bytes) ==
    IF typ = "string"
    THEN (IF size_bytes = None THEN Raise("ValueError")
          ELSE decode_string(regs, size_bytes.v))
    ELSE IF typ \notin DECODERS THEN Raise("ValueError")
    ELSE CASE typ = "int16" -> decode_int16(regs)
           [] typ = "uint16" -> decode_uint16(regs)
           [] typ = "enum16" -> decode_enum16(regs)
           [] typ = "bitfield16" -> decode_bitfield16(regs)
           [] typ = "int32" -> decode_int32(regs)
           [] typ = "uint32" -> decode_uint32(regs)
           [] typ = "acc32" -> decode_acc32(regs)
           [] typ = "int64" -> decode_int64(regs)
           [] typ = "uint64" -> decode_uint64(regs)
           [] typ = "acc64" -> decode_acc64(regs)
           [] typ = "sunssf" -> decode_sunssf(regs)

\* the double float(raw) * (10.0 ** float(sf)), kept as the decimal
\* mantissa/exponent pair it was computed from
FloatV(raw, sf) == [k |-> "float", neg |-> raw.neg, mag |-> raw.mag, e |-> sf]

\* raw, sf are None or a value; sf is None or Some(exponent).  10.0 ** x
\* raises OverflowError for x > 308 and is 0.0 for x < -323, which makes the
\* product 0.0
apply_scale(raw, sf) ==
    IF raw = None THEN None
    ELSE IF sf = None THEN raw
    ELSE IF sf.v > 308 THEN [k |-> "raise", err |-> "OverflowError"]
    ELSE IF sf.v < 0 - 323
    THEN [k |-> "float", neg |-> raw.neg, mag |-> <<0>>, e |-> 0]
    ELSE FloatV(raw, sf.v)

precision_from_sf(sf) ==
    IF sf = None THEN None
    ELSE Some(IF Min(sf.v, 0) < 0 THEN 0 - Min(sf.v, 0) ELSE Min(sf.v, 0))

\* ------------------------------------------------------------------------
\* model_registry.py: schema records
\* ------------------------------------------------------------------------

\* size, sfref, units, label are None or Some(..)
PointDef(name, type, size, sfref, units, label) ==
    [name |-> name, type |-> type, size |-> size, sfref |-> sfref,
     units |-> units, label |-> label]

GroupDef(name, points, repeating, count_field) ==
    [name |-> name, points |-> points, repeating |-> repeating,
     count_field |-> count_field]

ModelDef(id, name, groups) == [id |-> id, name |-> name, groups |-> groups]

\* ------------------------------------------------------------------------
\* parser.py
\* ------------------------------------------------------------------------

PointValue(raw, cvalue, units, desc, precision) ==
    [raw |-> raw, cvalue |-> cvalue, units |-> units, desc |-> desc,
     precision |-> precision]

ModelParseResult(model_id, model_name, points) ==
    [model_id |-> model_id, model_name |-> model_name, points |-> points]

\* faulty variant: a key already present keeps its value
Put_first(d, key, value) ==
    [x \in (DOMAIN d) \cup {key} |-> IF x \in DOMAIN d THEN d[x] ELSE value]

\* dict[key] = value
Put(d, key, value) ==
    [x \in (DOMAIN d) \cup {key} |-> IF x = key THEN value ELSE d[x]]

\* dict.get(key): None when the key is missing
Get(d, key) == IF key \in DOMAIN d THEN Some(d[key]) ELSE None

\* the locals of parse: pos, points_out, scale_map; err is the exception raised
ParseInit == [pos |-> 0, points_out |-> << >>, scale_map |-> << >>, err |-> ""]

\* regs[pos:]
SliceFrom(regs, pos) == SubSeq(regs, pos + 1, Len(regs))

\* truthiness of an optional int (`p.size or 0`) and of an optional str
TruthyInt(opt) == opt # None /\ opt.v # 0

TruthyStr(opt) == opt # None /\ opt.v # ""

\* one point of parse_group's inner loop (parser.py lines 61-109)
parse_point1(p, regs, ps) ==
    IF ps.err # "" THEN ps
    ELSE IF p.type = "pad"
    THEN LET pad_regs == IF p.size # None THEN p.size.v ELSE 1
         IN  [ps EXCEPT !.pos = @ + pad_regs]
    ELSE
    CHOOSE r \in {
        IF res.err # "" THEN [ps EXCEPT !.err = res.err]
        ELSE
        LET pos == ps.pos + res.regs_used
            raw == res.value
        IN  IF p.type = "sunssf"
            THEN [ps EXCEPT
                    !.pos = pos,
                    !.scale_map = IF raw # None THEN Put(@, p.name, ToInt(raw))
                                  ELSE @,
                    !.points_out = Put(@, p.name,
                                       PointValue(raw, raw, None, p.label, None))]
            ELSE
            LET sf == IF TruthyStr(p.sfref) THEN Get(ps.scale_map, p.sfref.v)
                      ELSE None
                prec == precision_from_sf(sf)
            IN  CHOOSE q \in {
                    IF cval.k = "raise"
                    THEN [ps EXCEPT !.pos = pos, !.err = cval.err]
                    ELSE [ps EXCEPT
                            !.pos = pos,
                            !.points_out = Put(@, p.name,
                                PointValue(raw, IF cval # None THEN cval ELSE raw,
                                           p.units, p.label, prec))] :
                      cval \in {apply_scale(IF IsInt(raw) THEN raw ELSE None, sf)}
                  } : TRUE :
          res \in {IF p.type = "string"
                   THEN decode_value(p.type, SliceFrom(regs, ps.pos),
                                     Some(IF TruthyInt(p.size) THEN p.size.v ELSE 0))
                   ELSE decode_value(p.type, SliceFrom(regs, ps.pos), None)}
      } : TRUE

\* faulty variant: every pad point skips one register
parse_point_pad1(p, regs, ps0) ==
    CHOOSE r \in {IF p.type = "pad" /\ ps.err = ""
                  THEN [ps EXCEPT !.pos = @ + 1]
                  ELSE parse_point1(p, regs, ps) : ps \in {ps0}} : TRUE

parse_point(p, regs, ps0) ==
    CHOOSE r \in {parse_point1(p, regs, ps) : ps \in {ps0}} : TRUE

\* for p in group.points: the points from index i on
RECURSIVE parse_points(_, _, _, _)
parse_points(points, i, regs, ps0) ==
    CHOOSE r \in
      {IF i > Len(points) \/ ps.err # "" THEN ps
       ELSE parse_points(points, i + 1, regs, parse_point(points[i], regs, ps)) :
         ps \in {ps0}} : TRUE

\* for _i in range(repeats)
RECURSIVE parse_repeat(_, _, _, _)
parse_repeat(group, repeats, regs, ps0) ==
    CHOOSE r \in
      {IF repeats <= 0 \/ ps.err # "" THEN ps
       ELSE parse_repeat(group, repeats - 1, regs,
                         parse_points(group.points, 1, regs, ps)) :
         ps \in {ps0}} : TRUE

\* a group of pads and empty strings only: no pass over it reads a register
Quiet(group) ==
    \A i \in 1..Len(group.points) :
        LET p == group.points[i]
        IN  p.type = "pad" \/ (p.type = "string" /\ ~TruthyInt(p.size))

\* faulty variant: without a count the group is processed once
parse_group1_once(group, regs, ps) ==
    IF ps.err # "" THEN ps
    ELSE IF ~group.repeating THEN parse_repeat(group, 1, regs, ps)
    ELSE IF group.count_field = None THEN [ps EXCEPT !.err = "ValueError"]
    ELSE
    LET count_val == Get(ps.points_out, group.count_field.v)
    IN  IF count_val = None \/ count_val.v.raw = None
        THEN parse_repeat(group, 1, regs, ps)
        ELSE IF ~IsInt(count_val.v.raw) THEN [ps EXCEPT !.err = "AssertionError"]
        ELSE parse_repeat(group, Min(ToInt(count_val.v.raw), Len(regs) + 1),
                          regs, ps)

\* parse_group (parser.py lines 46-109).  The passes are run one by one up to
\* Len(regs) + 1: every pass over a group that is not Quiet reads a register
\* at or after the cursor and moves the cursor on, so a later pass raises.  A
\* Quiet group's passes all emit the same points and move the cursor alike.
parse_group1(group, regs, ps) ==
    IF ps.err # "" THEN ps
    ELSE IF ~group.repeating THEN parse_repeat(group, 1, regs, ps)
    ELSE IF group.count_field = None THEN [ps EXCEPT !.err = "ValueError"]
    ELSE
    LET count_val == Get(ps.points_out, group.count_field.v)
    IN  IF count_val = None \/ count_val.v.raw = None
        THEN parse_repeat(group, 0, regs, ps)
        ELSE IF ~IsInt(count_val.v.raw) THEN [ps EXCEPT !.err = "AssertionError"]
        ELSE LET repeats == ToInt(count_val.v.raw)
             IN  IF repeats >= 1 /\ Quiet(group)
                 THEN CHOOSE r \in
                        {[once EXCEPT !.pos = ps.pos + repeats * (once.pos - ps.pos)] :
                           once \in {parse_points(group.points, 1, regs, ps)}} : TRUE
                 ELSE parse_repeat(group, Min(repeats, Len(regs) + 1), regs, ps)

\* faulty variant: every group starts with an empty scale-factor map
parse_group_reset(group, regs, ps0) ==
    CHOOSE r \in {parse_group1(group, regs, [ps EXCEPT !.scale_map = << >>]) :
                    ps \in {ps0}} : TRUE

parse_group(group, regs, ps0) ==
    CHOOSE r \in {parse_group1(group, regs, ps) : ps \in {ps0}} : TRUE

\* for g in model.groups: the groups from index i on
RECURSIVE parse_groups(_, _, _, _)
parse_groups(groups, i, regs, ps0) ==
    CHOOSE r \in
      {IF i > Len(groups) \/ ps.err # "" THEN ps
       ELSE parse_groups(groups, i + 1, regs, parse_group(groups[i], regs, ps)) :
         ps \in {ps0}} : TRUE

\* SunSpecParser.parse: the ModelParseResult, or the exception raised
parse(model, regs0) ==
    CHOOSE r \in
      {IF ps.err # "" THEN [kind |-> ps.err]
       ELSE [kind |-> "ok",
             val |-> ModelParseResult(model.id, model.name, ps.points_out)] :
         ps \in {parse_groups(model.groups, 1, regs0, ParseInit)}} : TRUE

\* ------------------------------------------------------------------------
\* The schema catalog (ModelRegistry._by_id after load())
\* ------------------------------------------------------------------------

StrPoint(name, size) == PointDef(name, "string", Some(size), None, None, None)

\* model 1 as the scanner test lays it out: five strings, 64 registers
Model1 ==
    ModelDef(1, "common",
        <<GroupDef("common",
            <<StrPoint("Mn", 32), StrPoint("Md", 32), StrPoint("Opt", 16),
              StrPoint("Vr", 16), StrPoint("SN", 32)>>,
            FALSE, None)>>)

\* the repeating-group model of test_parser_repeating_group
Model160 ==
    ModelDef(160, "mppt_test",
        <<GroupDef("scales",
            <<PointDef("DCA_SF", "sunssf", None, None, None, None),
              PointDef("DCV_SF", "sunssf", None, None, None, None),
              PointDef("DCW_SF", "sunssf", None, None, None, None),
              PointDef("N", "uint16", None, None, None, None)>>,
            FALSE, None),
          GroupDef("mppt",
            <<PointDef("DCA", "uint16", None, Some("DCA_SF"), None, None),
              PointDef("DCV", "uint16", None, Some("DCV_SF"), None, None),
              PointDef("DCW", "uint16", None, Some("DCW_SF"), None, None)>>,
            TRUE, Some("N"))>>)

_by_id == [id \in {1, 160} |-> IF id = 1 THEN Model1 ELSE Model160]

\* ModelRegistry.get_by_id: the definition, or KeyError
get_by_id(model_id) ==
    IF model_id \notin DOMAIN _by_id THEN [kind |-> "KeyError"]
    ELSE [kind |-> "ok", val |-> _by_id[model_id]]

\* ------------------------------------------------------------------------
\* The device behind the ModbusLink: a register image
\* ------------------------------------------------------------------------

\* "SunS" packed high byte first: 0x5375, 0x6E53
SunS0 == 83 * 256 + 117

SunS1 == 110 * 256 + 83

END_MODEL == WORD - 1

Hdr(id, len) == [id |-> id, len |-> len, shift |-> 0]

\* a model whose data registers start shift registers into the pattern
HdrAt(id, len, shift) == [id |-> id, len |-> len, shift |-> shift]

\* an image: a SunSpec map (signature, model chain, end marker) placed at
\* every base in sig; data registers repeat the pattern data; every other
\* register reads 0, as in _MockLink
Image(sig, chain, term, data) ==
    [sig |-> sig, chain |-> chain, term |-> term, data |-> data]

\* the register at offset off0 from the header of the chain's i-th model
RECURSIVE ChainReg(_, _, _)
ChainReg(img, i, off0) ==
    CHOOSE r \in
      {IF i > Len(img.chain)
       THEN (IF img.term /\ off = 0 THEN END_MODEL ELSE 0)
       ELSE LET h == img.chain[i]
            IN  IF off = 0 THEN h.id
                ELSE IF off = 1 THEN h.len
                ELSE IF off < 2 + h.len
                THEN img.data[((off - 2 + h.shift) % Len(img.data)) + 1]
                ELSE ChainReg(img, i + 1, off - 2 - h.len) :
         off \in {off0}} : TRUE

\* the register at address a
Mem(img, a) ==
    LET below == {b \in img.sig : b <= a}
    IN  IF below = {} THEN 0
        ELSE LET base == CHOOSE b \in below : \A c \in below : c <= b
                 off == a - base
             IN  IF off = 0 THEN SunS0
                 ELSE IF off = 1 THEN SunS1
                 ELSE ChainReg(img, 1, off - 2)

\* "ABB" padded: the manufacturer string of the scanner test
DataABB == <<65 * 256 + 66, 67 * 256, 0>>

\* scale factor -1, then small counts and values
DataMppt == <<WORD - 1, 0, 0, 2, 123, 300, 350>>

ImageTest == Image({40000}, <<Hdr(1, 64)>>, TRUE, DataABB)

ImageMulti ==
    Image({0, 50000}, <<Hdr(160, 10), Hdr(2, 0), Hdr(1, 300), Hdr(2, 3)>>,
          TRUE, DataMppt)

ImageNone == Image({}, << >>, TRUE, DataABB)

\* the common model twice, with different strings
ImageTwice == Image({40000}, <<Hdr(1, 64), HdrAt(1, 64, 1)>>, TRUE, DataABB)

Images == {ImageTest, ImageMulti, ImageNone, ImageTwice}

\* the map of the scanner test without its end marker: every register
\* behind the model reads 0, as _MockLink answers for an unset address
ImageOpen == Image({40000}, <<Hdr(1, 64)>>, FALSE, DataABB)

\* a map at the highest default base whose one model announces 20000 registers
ImageHigh == Image({50000}, <<Hdr(2, 20000)>>, TRUE, DataABB)

\* ModbusLink.read_holding_registers(address, count) as the transport may
\* answer it: the registers, one too few, one too many, or an exception
Outcomes == {"ok", "short", "long", "fail"}

Part(img, address, count, o) ==
    LET n == CASE o = "ok" -> count
               [] o = "short" -> count - 1
               [] o = "long" -> count + 1
               [] o = "fail" -> 0
    IN  [i \in 1..n |-> Mem(img, address + i - 1)]

\* ------------------------------------------------------------------------
\* scanner.py: AsyncSunSpecClient
\* ------------------------------------------------------------------------

SUNS_SIGNATURE == <<83, 117, 110, 83>>

MAX_REGS_PER_READ == 125

DefaultCandidates == <<0, 40000, 50000>>

DiscoveredModel(model_id, length, data_address) ==
    [model_id |-> model_id, length |-> length, data_address |-> data_address]

ScanResult(base_address, models) ==
    [k |-> "scan", base_address |-> base_address, models |-> models]

\* bounds of the model
MaxFaults == 2

MaxModels == 5

MaxUpdates == 1

TaskIds == {1, 2}

ModelIds == {1, 2, 160}

\* base_candidates as passed to the constructor: << >> stands for None or empty
CandidateArgs == {<< >>, <<50000, 40000>>}

VARIABLES
    _scan,              \* self._scan: None or a ScanResult
    _base_candidates,   \* self._base_candidates
    mem,                \* the device's register image
    task,               \* the calls in progress: each coroutine's locals
    connected,          \* the transport is connected: connect() succeeded, no close() since
    scanned,            \* "no": no scan() has ended; "failed": every scan() so
                        \* far raised; "yes": some scan() returned a ScanResult
    faults,             \* transport failures so far
    updates,            \* device image changes so far
    call                \* a call of decode_value or parse made directly: its
                        \* arguments and, once made, what it returned or raised

vars == <<_scan, _base_candidates, mem, task, connected, scanned, faults, updates, call>>

\* a call not yet made
Idle ==
    [op |-> "none", pc |-> "idle", arg |-> 0,
     rd |-> None, cand |-> 0, base_addr |-> None, models |-> << >>, ptr |-> 0,
     scan |-> None, i |-> 0, out |-> << >>,
     result |-> None, log |-> << >>, nread |-> 0, block |-> None,
     scan0 |-> None, scanned0 |-> "no", connected0 |-> FALSE, more |-> 0]

\* a call being entered: its locals fresh, and what held when it was made
Enter(op, arg) ==
    [Idle EXCEPT !.op = op, !.arg = arg, !.scan0 = _scan,
                 !.scanned0 = scanned, !.connected0 = connected]

\* the call returns val (kind "ok") or raises the exception named kind;
\* log, nread and block keep the call's transport reads: log every physical
\* read in issue order, nread the number of _read calls, block the register
\* block the last _read call returned
Done(tk, kind, val) ==
    [tk EXCEPT !.pc = "done", !.rd = None, !.result = [kind |-> kind, val |-> val]]

\* ---- _read (scanner.py lines 68-86) ----

\* the locals of _read on entry
ReadFrame(address, count) ==
    [address |-> address, count |-> count, regs |-> << >>,
     remaining |-> count, offset |-> 0]

\* faulty variant: the whole remainder in one physical read
Chunk_whole(rd) == rd.remaining

Chunk(rd) == Min(rd.remaining, MAX_REGS_PER_READ)

\* the call of read_holding_registers at the top of the loop body: the task
\* waits at pc for the transport; the log keeps every physical read
Issue(tk, pc, rd) ==
    [tk EXCEPT
        !.pc = pc, !.rd = rd,
        !.log = Append(@, [pc |-> pc, lr |-> tk.nread,
                           la |-> rd.address, ln |-> rd.count,
                           address |-> rd.address + rd.offset,
                           count |-> Chunk(rd), st |-> "pending",
                           part |-> << >>])]

\* the transport's answer to the pending read is noted in the log
Answered(tk, o, part) ==
    [tk EXCEPT !.log[Len(tk.log)].st = o, !.log[Len(tk.log)].part = part]

\* faulty variant: a part of the wrong length is asked for again
ReadResume_retry(rd, o, part) ==
    IF o = "fail" THEN [st |-> "raise", err |-> "TransportError", rd |-> rd]
    ELSE IF Len(part) # Chunk(rd) THEN [st |-> "await", err |-> "", rd |-> rd]
    ELSE LET rd2 == [rd EXCEPT !.regs = @ \o part,
                               !.remaining = @ - Chunk(rd),
                               !.offset = @ + Chunk(rd)]
         IN  [st |-> IF rd2.remaining > 0 THEN "await" ELSE "return",
              err |-> "", rd |-> rd2]

\* faulty variant: a read that failed in the transport is issued again
ReadResume_again(rd, o, part) ==
    IF o = "fail" THEN [st |-> "await", err |-> "", rd |-> rd]
    ELSE IF Len(part) # Chunk(rd)
    THEN [st |-> "raise", err |-> "ProtocolError", rd |-> rd]
    ELSE LET rd2 == [rd EXCEPT !.regs = @ \o part,
                               !.remaining = @ - Chunk(rd),
                               !.offset = @ + Chunk(rd)]
         IN  [st |-> IF rd2.remaining > 0 THEN "await" ELSE "return",
              err |-> "", rd |-> rd2]

\* one pass of the loop body after the awaited read: raise, read on, or return
ReadResume(rd, o, part) ==
    IF o = "fail" THEN [st |-> "raise", err |-> "TransportError", rd |-> rd]
    ELSE IF Len(part) # Chunk(rd)
    THEN [st |-> "raise", err |-> "ProtocolError", rd |-> rd]
    ELSE LET rd2 == [rd EXCEPT !.regs = @ \o part,
                               !.remaining = @ - Chunk(rd),
                               !.offset = @ + Chunk(rd)]
         IN  [st |-> IF rd2.remaining > 0 THEN "await" ELSE "return",
              err |-> "", rd |-> rd2]

\* _read(address, count) is called with count > 0: the first physical read
EnterRead(tk, pc, address, count) ==
    Issue([tk EXCEPT !.nread = @ + 1], pc, ReadFrame(address, count))

\* _read returns regs to its caller
Returned(tk, regs) ==
    [tk EXCEPT !.block = Some([lr |-> tk.nread, n |-> tk.rd.count, regs |-> regs]),
               !.rd = None]

\* _read(address, 0): the loop body never runs
EmptyRead(tk) ==
    [tk EXCEPT !.nread = @ + 1,
               !.block = Some([lr |-> tk.nread + 1, n |-> 0, regs |-> << >>])]

\* _decode_string_from_regs
decode_string_from_regs(regs) == AsciiIgnore(BytesOf(regs))

\* s[:n]
Prefix(s, n) == SubSeq(s, 1, Min(n, Len(s)))

\* ---- scan (scanner.py lines 96-126) ----

\* the for loop moves to candidate number c, or falls through to line 108
ProbeNext(tk, c) ==
    IF c > Len(_base_candidates)
    THEN Done([tk EXCEPT !.cand = c], "ScanError", None)
    ELSE EnterRead([tk EXCEPT !.cand = c], "probe", _base_candidates[c], 2)

\* the signature test of line 105
IsSunS(regs) == Prefix(decode_string_from_regs(regs), 4) = SUNS_SIGNATURE

\* faulty variant: no break after a match, the last matching candidate is accepted
ProbeResume_nobreak(tk, r) ==
    IF r.st = "raise"
    THEN (IF r.err = "TransportError" THEN ProbeNext(tk, tk.cand + 1)
          ELSE Done(tk, r.err, None))
    ELSE IF r.st = "await" THEN Issue(tk, "probe", r.rd)
    ELSE LET cand == _base_candidates[tk.cand]
             tk1 == IF IsSunS(r.rd.regs)
                    THEN [Returned(tk, r.rd.regs) EXCEPT !.base_addr = Some(cand)]
                    ELSE Returned(tk, r.rd.regs)
         IN  IF tk.cand < Len(_base_candidates) \/ tk1.base_addr = None
             THEN ProbeNext(tk1, tk.cand + 1)
             ELSE EnterRead([tk1 EXCEPT !.models = << >>,
                                        !.ptr = tk1.base_addr.v + 2],
                            "walk", tk1.base_addr.v + 2, 2)

\* faulty variant: the walk appends to the model list of the stored result
ProbeResume_keep(tk, r) ==
    IF r.st = "raise"
    THEN (IF r.err = "TransportError" THEN ProbeNext(tk, tk.cand + 1)
          ELSE Done(tk, r.err, None))
    ELSE IF r.st = "await" THEN Issue(tk, "probe", r.rd)
    ELSE LET cand == _base_candidates[tk.cand]
         IN  IF IsSunS(r.rd.regs)
             THEN EnterRead([Returned(tk, r.rd.regs) EXCEPT
                                !.base_addr = Some(cand),
                                !.models = IF _scan = None THEN << >>
                                           ELSE _scan.models,
                                !.ptr = cand + 2],
                            "walk", cand + 2, 2)
             ELSE ProbeNext(Returned(tk, r.rd.regs), tk.cand + 1)

\* faulty variant: every exception of a probe read moves on to the next candidate
ProbeResume_skip(tk, r) ==
    IF r.st = "raise" THEN ProbeNext(tk, tk.cand + 1)
    ELSE IF r.st = "await" THEN Issue(tk, "probe", r.rd)
    ELSE LET cand == _base_candidates[tk.cand]
         IN  IF IsSunS(r.rd.regs)
             THEN EnterRead([Returned(tk, r.rd.regs) EXCEPT
                                !.base_addr = Some(cand), !.models = << >>,
                                !.ptr = cand + 2],
                            "walk", cand + 2, 2)
             ELSE ProbeNext(Returned(tk, r.rd.regs), tk.cand + 1)

\* lines 100-113 after the probe read at candidate tk.cand
ProbeResume(tk, r) ==
    IF r.st = "raise"
    THEN (IF r.err = "TransportError" THEN ProbeNext(tk, tk.cand + 1)
          ELSE Done(tk, r.err, None))
    ELSE IF r.st = "await" THEN Issue(tk, "probe", r.rd)
    ELSE LET cand == _base_candidates[tk.cand]
         IN  IF IsSunS(r.rd.regs)
             THEN EnterRead([Returned(tk, r.rd.regs) EXCEPT
                                !.base_addr = Some(cand), !.models = << >>,
                                !.ptr = cand + 2],
                            "walk", cand + 2, 2)
             ELSE ProbeNext(Returned(tk, r.rd.regs), tk.cand + 1)

\* faulty variant: data_address is the header's address
WalkResume_hdraddr(tk, r) ==
    IF r.st = "raise" THEN [t |-> Done(tk, r.err, None), store |-> None]
    ELSE IF r.st = "await" THEN [t |-> Issue(tk, "walk", r.rd), store |-> None]
    ELSE LET hdr == r.rd.regs
             model_id == Mask16(hdr[1])
             length == Mask16(hdr[2])
             tk1 == Returned(tk, hdr)
         IN  IF model_id = END_MODEL
             THEN LET res == ScanResult(tk.base_addr.v, tk.models)
                  IN  [t |-> Done(tk1, "ok", res), store |-> Some(res)]
             ELSE LET ptr == tk.ptr + 2 + length
                      tk2 == [tk1 EXCEPT
                                !.models = Append(@, DiscoveredModel(model_id,
                                                  length, tk.ptr)),
                                !.ptr = ptr]
                  IN  [t |-> EnterRead(tk2, "walk", ptr, 2), store |-> None]

\* faulty variant: a walk that raises stores the models found so far
WalkResume_partial(tk, r) ==
    IF r.st = "raise"
    THEN [t |-> Done(tk, r.err, None),
          store |-> Some(ScanResult(tk.base_addr.v, tk.models))]
    ELSE IF r.st = "await" THEN [t |-> Issue(tk, "walk", r.rd), store |-> None]
    ELSE LET hdr == r.rd.regs
             model_id == Mask16(hdr[1])
             length == Mask16(hdr[2])
             tk1 == Returned(tk, hdr)
         IN  IF model_id = END_MODEL
             THEN LET res == ScanResult(tk.base_addr.v, tk.models)
                  IN  [t |-> Done(tk1, "ok", res), store |-> Some(res)]
             ELSE LET ptr == tk.ptr + 2 + length
                      tk2 == [tk1 EXCEPT
                                !.models = Append(@, DiscoveredModel(model_id,
                                                  length, tk.ptr + 2)),
                                !.ptr = ptr]
                  IN  [t |-> EnterRead(tk2, "walk", ptr, 2), store |-> None]

\* faulty variant: the walk stores the models found so far after each header
WalkResume_eager(tk, r) ==
    IF r.st = "raise" THEN [t |-> Done(tk, r.err, None), store |-> None]
    ELSE IF r.st = "await" THEN [t |-> Issue(tk, "walk", r.rd), store |-> None]
    ELSE LET hdr == r.rd.regs
             model_id == Mask16(hdr[1])
             length == Mask16(hdr[2])
             tk1 == Returned(tk, hdr)
         IN  IF model_id = END_MODEL
             THEN LET res == ScanResult(tk.base_addr.v, tk.models)
                  IN  [t |-> Done(tk1, "ok", res), store |-> Some(res)]
             ELSE LET ptr == tk.ptr + 2 + length
                      tk2 == [tk1 EXCEPT
                                !.models = Append(@, DiscoveredModel(model_id,
                                                  length, tk.ptr + 2)),
                                !.ptr = ptr]
                  IN  [t |-> EnterRead(tk2, "walk", ptr, 2),
                       store |-> Some(ScanResult(tk.base_addr.v, tk2.models))]

\* lines 114-126 after the header read at tk.ptr; store is the new self._scan
WalkResume(tk, r) ==
    IF r.st = "raise" THEN [t |-> Done(tk, r.err, None), store |-> None]
    ELSE IF r.st = "await" THEN [t |-> Issue(tk, "walk", r.rd), store |-> None]
    ELSE LET hdr == r.rd.regs
             model_id == Mask16(hdr[1])
             length == Mask16(hdr[2])
             tk1 == Returned(tk, hdr)
         IN  IF model_id = END_MODEL
             THEN LET res == ScanResult(tk.base_addr.v, tk.models)
                  IN  [t |-> Done(tk1, "ok", res), store |-> Some(res)]
             ELSE LET ptr == tk.ptr + 2 + length
                      tk2 == [tk1 EXCEPT
                                !.models = Append(@, DiscoveredModel(model_id,
                                                  length, tk.ptr + 2)),
                                !.ptr = ptr]
                  IN  [t |-> EnterRead(tk2, "walk", ptr, 2), store |-> None]

\* ---- read_model (scanner.py lines 133-143) ----

\* faulty variant: the matching models, last first
Matches_reversed(models, model_id) ==
    LET Hit(m) == m.model_id = model_id
        hits == SelectSeq(models, Hit)
    IN  [i \in 1..Len(hits) |-> hits[Len(hits) + 1 - i]]

\* [m for m in scan.models if m.model_id == model_id]
Matches(models, model_id) ==
    LET Hit(m) == m.model_id = model_id IN SelectSeq(models, Hit)

\* lines 141-143: the registry lookup and the parse
ReadModelFinish(tk, regs) ==
    LET model_def == get_by_id(tk.arg)
    IN  IF model_def.kind # "ok" THEN Done(tk, model_def.kind, None)
        ELSE CHOOSE r \in
               {IF res.kind # "ok" THEN Done(tk, res.kind, None)
                ELSE Done(tk, "ok", res.val) :
                  res \in {parse(model_def.val, regs)}} : TRUE

\* faulty variant: an empty result stands in for the missing one
ensure_scan_empty(scan) ==
    [kind |-> "ok", val |-> IF scan = None THEN ScanResult(0, << >>) ELSE scan]

\* _ensure_scan (lines 128-131)
ensure_scan(scan) ==
    IF scan = None THEN [kind |-> "ScanError"] ELSE [kind |-> "ok", val |-> scan]

\* lines 135-140: up to the first read
ReadModelEnter(tk) ==
    LET scan == ensure_scan(_scan)
    IN  IF scan.kind # "ok" THEN Done(tk, scan.kind, None)
        ELSE LET matches == Matches(scan.val.models, tk.arg)
             IN  IF matches = << >> THEN Done(tk, "ModelNotFoundError", None)
                 ELSE LET m == matches[1]
                      IN  IF m.length > 0
                          THEN EnterRead([tk EXCEPT !.scan = scan.val],
                                         "read_model", m.data_address, m.length)
                          ELSE ReadModelFinish(
                                   EmptyRead([tk EXCEPT !.scan = scan.val]), << >>)

ReadModelResume(tk, r) ==
    IF r.st = "raise" THEN Done(tk, r.err, None)
    ELSE IF r.st = "await" THEN Issue(tk, "read_model", r.rd)
    ELSE ReadModelFinish(Returned(tk, r.rd.regs), r.rd.regs)

\* ---- read_all (scanner.py lines 145-157) ----

RECURSIVE ReadAllLoop(_)

\* line 156 for the model at index tk.i, then on with the loop
ReadAllParsed(tk, regs) ==
    LET m == tk.scan.models[tk.i]
    IN  CHOOSE r \in
          {IF res.kind # "ok" THEN Done(tk, res.kind, None)
           ELSE ReadAllLoop([tk EXCEPT !.out = Put(@, m.model_id, res.val),
                                       !.i = @ + 1]) :
             res \in {parse(get_by_id(m.model_id).val, regs)}} : TRUE

\* faulty variant: a model without schema ends the loop (break for continue)
ReadAllLoop_break(tk0) ==
    CHOOSE r \in
      {IF tk.i > Len(tk.scan.models) THEN Done(tk, "ok", tk.out)
       ELSE LET m == tk.scan.models[tk.i]
            IN  IF get_by_id(m.model_id).kind = "KeyError"
                THEN Done(tk, "ok", tk.out)
                ELSE IF m.length > 0
                THEN EnterRead(tk, "read_all", m.data_address, m.length)
                ELSE ReadAllParsed(EmptyRead(tk), << >>) :
         tk \in {tk0}} : TRUE

\* the for loop of lines 149-156 from index tk.i to the next awaited read
ReadAllLoop(tk0) ==
    CHOOSE r \in
      {IF tk.i > Len(tk.scan.models) THEN Done(tk, "ok", tk.out)
       ELSE LET m == tk.scan.models[tk.i]
            IN  IF get_by_id(m.model_id).kind = "KeyError"
                THEN ReadAllLoop([tk EXCEPT !.i = @ + 1])
                ELSE IF m.length > 0
                THEN EnterRead(tk, "read_all", m.data_address, m.length)
                ELSE ReadAllParsed(EmptyRead(tk), << >>) :
         tk \in {tk0}} : TRUE

ReadAllEnter(tk) ==
    LET scan == ensure_scan(_scan)
    IN  IF scan.kind # "ok" THEN Done(tk, scan.kind, None)
        ELSE ReadAllLoop([tk EXCEPT !.scan = scan.val, !.i = 1])

ReadAllResume(tk, r) ==
    IF r.st = "raise" THEN Done(tk, r.err, None)
    ELSE IF r.st = "await" THEN Issue(tk, "read_all", r.rd)
    ELSE ReadAllParsed(Returned(tk, r.rd.regs), r.rd.regs)

\* ------------------------------------------------------------------------
\* The state machine
\* ------------------------------------------------------------------------

\* no direct call
NoCall == [fn |-> "none"]

Init ==
    /\ _scan = None
    /\ \E arg \in CandidateArgs :
          _base_candidates = IF arg = << >> THEN DefaultCandidates ELSE arg
    /\ mem \in Images
    /\ task = [t \in TaskIds |-> Idle]
    /\ connected = FALSE
    /\ scanned = "no"
    /\ faults = 0
    /\ updates = 0
    /\ call = NoCall

\* a caller may make a call when its previous one has returned
Free(t) == task[t].pc \in {"idle", "done"}

\* what the transport may answer now
MayAnswer(o) == o = "ok" \/ faults < MaxFaults

Count(o) == IF o = "ok" THEN faults ELSE faults + 1

\* the one transport call of connect() and close()
LinkCall(tk, pc, o) ==
    [tk EXCEPT !.log = Append(@, [pc |-> pc, lr |-> 0, la |-> 0, ln |-> 0,
                                  address |-> 0, count |-> 0, st |-> o,
                                  part |-> << >>])]

\* faulty variant: connect() returns although the transport's connect raised
Connect_silent(t) ==
    /\ Free(t)
    /\ \E o \in {"ok", "fail"} :
          /\ MayAnswer(o)
          /\ task' = [task EXCEPT ![t] =
                Done(LinkCall(Enter("connect", 0), "connect", o), "ok", None)]
          /\ connected' = IF o = "ok" THEN TRUE ELSE connected
          /\ faults' = Count(o)
    /\ UNCHANGED <<_scan, _base_candidates, mem, scanned, updates, call>>

\* connect (scanner.py lines 54-59)
Connect(t) ==
    /\ Free(t)
    /\ \E o \in {"ok", "fail"} :
          /\ MayAnswer(o)
          /\ task' = [task EXCEPT ![t] =
                Done(LinkCall(Enter("connect", 0), "connect", o),
                     IF o = "ok" THEN "ok" ELSE "TransportError", None)]
          /\ connected' = IF o = "ok" THEN TRUE ELSE connected
          /\ faults' = Count(o)
    /\ UNCHANGED <<_scan, _base_candidates, mem, scanned, updates, call>>

\* faulty variant: close() drops the scan result
Close_clears(t) ==
    /\ Free(t)
    /\ \E o \in {"ok", "fail"} :
          /\ MayAnswer(o)
          /\ task' = [task EXCEPT ![t] =
                Done(LinkCall(Enter("close", 0), "close", o),
                     IF o = "ok" THEN "ok" ELSE "TransportError", None)]
          /\ faults' = Count(o)
    /\ connected' = FALSE
    /\ _scan' = None
    /\ UNCHANGED <<_base_candidates, mem, scanned, updates, call>>

\* close (scanner.py lines 61-66)
Close(t) ==
    /\ Free(t)
    /\ \E o \in {"ok", "fail"} :
          /\ MayAnswer(o)
          /\ task' = [task EXCEPT ![t] =
                Done(LinkCall(Enter("close", 0), "close", o),
                     IF o = "ok" THEN "ok" ELSE "TransportError", None)]
          /\ faults' = Count(o)
    /\ connected' = FALSE
    /\ UNCHANGED <<_scan, _base_candidates, mem, scanned, updates, call>>

\* scan() is called: runs to the first probe read
ScanStart(t) ==
    /\ Free(t)
    /\ task' = [task EXCEPT ![t] = ProbeNext(Enter("scan", 0), 1)]
    /\ UNCHANGED <<_scan, _base_candidates, mem, connected, scanned, faults, updates, call>>

\* the transport's answer to the read the task waits for
Answer(tk, o) == Part(mem, tk.rd.address + tk.rd.offset, Chunk(tk.rd), o)

\* scan() resumes after a probe read
ScanProbe(t) ==
    /\ task[t].pc = "probe"
    /\ \E o \in Outcomes :
          /\ MayAnswer(o)
          /\ LET tk == task[t]
                 part == Answer(tk, o)
                 tk2 == ProbeResume(Answered(tk, o, part), ReadResume(tk.rd, o, part))
             IN  /\ task' = [task EXCEPT ![t] = tk2]
                 /\ scanned' = IF tk2.pc = "done" /\ scanned = "no" THEN "failed"
                                ELSE scanned
          /\ faults' = Count(o)
    /\ UNCHANGED <<_scan, _base_candidates, mem, connected, updates, call>>

\* scan() resumes after a header read
ScanWalk(t) ==
    /\ task[t].pc = "walk"
    /\ Len(task[t].models) <= MaxModels
    /\ \E o \in Outcomes :
          /\ MayAnswer(o)
          /\ LET tk == task[t]
                 part == Answer(tk, o)
                 w == WalkResume(Answered(tk, o, part), ReadResume(tk.rd, o, part))
             IN  /\ task' = [task EXCEPT ![t] = w.t]
                 /\ _scan' = IF w.store # None THEN w.store.v ELSE _scan
                 /\ scanned' = IF w.store # None THEN "yes"
                                ELSE IF w.t.pc = "done" /\ scanned = "no" THEN "failed"
                                ELSE scanned
          /\ faults' = Count(o)
    /\ UNCHANGED <<_base_candidates, mem, connected, updates, call>>

\* read_model(model_id) is called: runs to its first read, or to its end
ReadModelStart(t) ==
    /\ Free(t)
    /\ \E model_id \in ModelIds :
          task' = [task EXCEPT ![t] = ReadModelEnter(Enter("read_model", model_id))]
    /\ UNCHANGED <<_scan, _base_candidates, mem, connected, scanned, faults, updates, call>>

\* read_model() resumes after a physical read
ReadModelStep(t) ==
    /\ task[t].pc = "read_model"
    /\ \E o \in Outcomes :
          /\ MayAnswer(o)
          /\ LET tk == task[t]
                 part == Answer(tk, o)
             IN  task' = [task EXCEPT ![t] =
                    ReadModelResume(Answered(tk, o, part), ReadResume(tk.rd, o, part))]
          /\ faults' = Count(o)
    /\ UNCHANGED <<_scan, _base_candidates, mem, connected, scanned, updates, call>>

\* read_all() is called: runs to its first read, or to its end
ReadAllStart(t) ==
    /\ Free(t)
    /\ task' = [task EXCEPT ![t] = ReadAllEnter(Enter("read_all", 0))]
    /\ UNCHANGED <<_scan, _base_candidates, mem, connected, scanned, faults, updates, call>>

\* faulty variant: a read_all() that raises drops the scan result
ReadAllStep_forget(t) ==
    /\ task[t].pc = "read_all"
    /\ \E o \in Outcomes :
          /\ MayAnswer(o)
          /\ LET tk == task[t]
                 part == Answer(tk, o)
                 tk2 == ReadAllResume(Answered(tk, o, part),
                                      ReadResume(tk.rd, o, part))
             IN  /\ task' = [task EXCEPT ![t] = tk2]
                 /\ _scan' = IF tk2.pc = "done" /\ tk2.result.kind # "ok"
                             THEN None ELSE _scan
          /\ faults' = Count(o)
    /\ UNCHANGED <<_base_candidates, mem, connected, scanned, updates, call>>

\* read_all() resumes after a physical read
ReadAllStep(t) ==
    /\ task[t].pc = "read_all"
    /\ \E o \in Outcomes :
          /\ MayAnswer(o)
          /\ LET tk == task[t]
                 part == Answer(tk, o)
             IN  task' = [task EXCEPT ![t] =
                    ReadAllResume(Answered(tk, o, part), ReadResume(tk.rd, o, part))]
          /\ faults' = Count(o)
    /\ UNCHANGED <<_scan, _base_candidates, mem, connected, scanned, updates, call>>

\* the device's registers change (another map, or none)
DeviceUpdate ==
    /\ updates < MaxUpdates
    /\ \E img \in Images \ {mem} : mem' = img
    /\ updates' = updates + 1
    /\ UNCHANGED <<_scan, _base_candidates, task, connected, scanned, faults, call>>

\* one caller, its calls one after the other
Next ==
    \/ Connect(1)
    \/ Close(1)
    \/ ScanStart(1)
    \/ ScanProbe(1)
    \/ ScanWalk(1)
    \/ ReadModelStart(1)
    \/ ReadModelStep(1)
    \/ ReadAllStart(1)
    \/ ReadAllStep(1)
    \/ DeviceUpdate

Spec == Init /\ [][Next]_vars

\* ---- two callers on one engine ----

\* the device's registers change while no scan() is walking them
DeviceSettled ==
    /\ Free(1)
    /\ DeviceUpdate

\* caller 1 scans, caller 2 reads; the two coroutines interleave at every
\* await of the transport (scanner.py lines 74, 102, 115, 140, 155)
NextTasks ==
    \/ ScanStart(1)
    \/ ScanProbe(1)
    \/ ScanWalk(1)
    \/ ReadModelStart(2)
    \/ ReadModelStep(2)
    \/ ReadAllStart(2)
    \/ ReadAllStep(2)
    \/ DeviceSettled

SpecTasks == Init /\ [][NextTasks]_vars

\* ---- scan() under a transport that answers every read ----

InitScan ==
    /\ _scan = None
    /\ \E arg \in CandidateArgs :
          _base_candidates = IF arg = << >> THEN DefaultCandidates ELSE arg
    /\ mem \in Images \cup {ImageOpen, ImageHigh}
    /\ task = [t \in TaskIds |-> Idle]
    /\ connected = FALSE
    /\ scanned = "no"
    /\ faults = 0
    /\ updates = 0
    /\ call = NoCall

\* scan() resumes after a header read behind the models the walk is
\* followed for. That far the walk is on a map without end marker, where
\* every further header reads (0, 0): the loop of lines 114-123 appends one
\* more model 0 of length 0 and reads the next header. Of these models only
\* their number modulo 2 is kept (more); a read that fails ends the call as
\* anywhere in the walk.
ScanWalkOn(t) ==
    /\ task[t].pc = "walk"
    /\ Len(task[t].models) > MaxModels
    /\ \E o \in Outcomes :
          /\ MayAnswer(o)
          /\ LET tk == task[t]
                 part == Answer(tk, o)
                 w == WalkResume(Answered(tk, o, part), ReadResume(tk.rd, o, part))
             IN  /\ task' = [task EXCEPT ![t] =
                        IF w.t.pc = "done" THEN w.t
                        ELSE IF w.t.rd.offset = 0 /\ w.t.rd.regs = << >>
                                  /\ Len(w.t.models) > Len(tk.models)
                        THEN [tk EXCEPT !.more = 1 - @]
                        ELSE w.t]
                 /\ _scan' = IF w.store # None THEN w.store.v ELSE _scan
                 /\ scanned' = IF w.store # None THEN "yes"
                                ELSE IF w.t.pc = "done" /\ scanned = "no" THEN "failed"
                                ELSE scanned
          /\ faults' = Count(o)
    /\ UNCHANGED <<_base_candidates, mem, connected, updates, call>>

NextScan ==
    \/ ScanStart(1)
    \/ ScanProbe(1)
    \/ ScanWalk(1)
    \/ ScanWalkOn(1)

\* every read the coroutine awaits is answered or fails, and the event loop
\* then resumes the coroutine: a scan() waiting for a read takes its next step
SpecScan ==
    InitScan /\ [][NextScan]_vars
        /\ WF_vars(ScanProbe(1)) /\ WF_vars(ScanWalk(1)) /\ WF_vars(ScanWalkOn(1))

\* ------------------------------------------------------------------------
\* Properties
\* ------------------------------------------------------------------------

\* the physical reads a call issued at position pc of its code
LogAt(tk, pc) == LET At(e) == e.pc = pc IN SelectSeq(tk.log, At)

\* a probe read answered with the two registers 0x5375 0x6E53 ("Su" "nS")
Matched(e) == e.st = "ok" /\ e.part = <<SunS0, SunS1>>

\* a probe read answered with a register count other than the 2 asked for
WrongCount(e) == e.st \notin {"pending", "fail"} /\ Len(e.part) # e.count

\* C1 as stated: whenever scan() ends with no candidate matched, it raises
\* ScanError and records nothing.
CE_C1_NoMatchIsScanError ==
    \A t \in TaskIds :
        LET tk == task[t]
            probes == LogAt(tk, "probe")
        IN  (tk.op = "scan" /\ tk.pc = "done"
                /\ \A k \in 1..Len(probes) : ~Matched(probes[k]))
            => (tk.result.kind = "ScanError" /\ _scan = tk.scan0)

\* C1 (amended): scan() probes the candidates in their configured order, 2
\* registers at each, before any header read; the accepted base is the first
\* candidate whose read returned the registers of "SunS", and no candidate
\* after it is read; when no candidate matched, scan() records nothing and
\* raises ScanError if every candidate was probed and each probe either
\* failed in the transport or returned 2 other registers, and ProtocolError,
\* at once, if a probe returned another number of registers than 2.
Thm_C1_ProbeOrder ==
    \A t \in TaskIds :
        LET tk == task[t]
            probes == LogAt(tk, "probe")
            n == Len(probes)
            hits == {k \in 1..n : Matched(probes[k])}
        IN  tk.op = "scan" =>
              /\ n <= Len(_base_candidates)
              /\ \A k \in 1..n :
                    /\ tk.log[k] = probes[k]
                    /\ probes[k].address = _base_candidates[k]
                    /\ probes[k].count = 2
              /\ \A k \in hits : k = n /\ tk.base_addr = Some(_base_candidates[k])
              /\ tk.base_addr # None => hits = {n}
              /\ (tk.pc = "done" /\ tk.result.kind = "ok")
                    => tk.result.val.base_address = tk.base_addr.v
              /\ (tk.pc = "done" /\ hits = {})
                    => /\ Len(tk.log) = n
                       /\ _scan = tk.scan0
                       /\ \A k \in 1..(n - 1) : ~WrongCount(probes[k])
                       /\ IF WrongCount(probes[n])
                          THEN tk.result.kind = "ProtocolError"
                          ELSE /\ tk.result.kind = "ScanError"
                               /\ n = Len(_base_candidates)

\* C1's case: the first candidate was read and did not match, the second did
Wit_C1 ==
    \E t \in TaskIds :
        /\ task[t].op = "scan" /\ task[t].pc = "done"
        /\ task[t].result.kind = "ok"
        /\ Len(LogAt(task[t], "probe")) = 2
        /\ task[t].log[1].st = "ok"
        /\ task[t].result.val.base_address = _base_candidates[2]

\* C2: after a successful scan() with base B the recorded models are the
\* headers read from B + 2 on, in order, up to the first header with id
\* 0xFFFF, which is not recorded: each model's id and length are its two
\* header registers, its data_address is the header's address + 2, and the
\* next header was read at data_address + length.
Thm_C2_ModelChain ==
    \A t \in TaskIds :
        LET tk == task[t]
            walk == LogAt(tk, "walk")
        IN  (tk.op = "scan" /\ tk.pc = "done" /\ tk.result.kind = "ok") =>
              LET B == tk.result.val.base_address
                  ms == tk.result.val.models
              IN  /\ _scan = tk.result.val
                  /\ Len(walk) = Len(ms) + 1
                  /\ walk[1].address = B + 2
                  /\ walk[Len(walk)].part[1] = 65535
                  /\ \A k \in 1..Len(ms) :
                        /\ walk[k].part = <<ms[k].model_id, ms[k].length>>
                        /\ ms[k].model_id # 65535
                        /\ ms[k].data_address = walk[k].address + 2
                        /\ walk[k + 1].address = ms[k].data_address + ms[k].length
                        /\ ms[k].data_address =
                              IF k = 1 THEN B + 4
                              ELSE ms[k - 1].data_address + ms[k - 1].length + 2

\* C2's case: a scan that recorded several models
Wit_C2 ==
    \E t \in TaskIds :
        /\ task[t].op = "scan" /\ task[t].pc = "done"
        /\ task[t].result.kind = "ok"
        /\ Len(task[t].result.val.models) >= 3

IsRead(tk) == tk.op \in {"read_model", "read_all"}

\* C3: read_model and read_all called while no scan() has returned a result
\* (none ended, or every one raised) raise ScanError without a transport read.
Thm_C3_NoScan ==
    \A t \in TaskIds :
        (IsRead(task[t]) /\ task[t].scanned0 # "yes") =>
            /\ task[t].pc = "done"
            /\ task[t].result.kind = "ScanError"
            /\ task[t].log = << >>

\* C3's case: a read after a scan() that raised
Wit_C3 ==
    \E t \in TaskIds :
        /\ IsRead(task[t]) /\ task[t].scanned0 = "failed"
        /\ task[t].pc = "done"

\* the index of the first model of ms with the id, 0 when there is none
FirstWith(ms, id) ==
    LET at == {i \in 1..Len(ms) : ms[i].model_id = id}
    IN  IF at = {} THEN 0 ELSE CHOOSE i \in at : \A j \in at : i <= j

\* C4: with a scan result stored, read_model(id) raises ModelNotFoundError
\* without a transport read when no model of the result has the id; when one
\* has, the physical reads cover, in order and without gap, the registers
\* data_address .. data_address + length - 1 of the first such model, all of
\* them once the block is returned.
Thm_C4_ReadModelRange ==
    \A t \in TaskIds :
        LET tk == task[t]
        IN  (tk.op = "read_model" /\ tk.scan0 # None) =>
              LET i == FirstWith(tk.scan0.models, tk.arg)
                  m == tk.scan0.models[i]
                  n == Len(tk.log)
              IN  IF i = 0
                  THEN /\ tk.pc = "done"
                       /\ tk.result.kind = "ModelNotFoundError"
                       /\ tk.log = << >>
                  ELSE /\ \A k \in 1..n :
                            /\ tk.log[k].count >= 1
                            /\ tk.log[k].address =
                                  IF k = 1 THEN m.data_address
                                  ELSE tk.log[k - 1].address + tk.log[k - 1].count
                            /\ tk.log[k].address + tk.log[k].count
                                  <= m.data_address + m.length
                       /\ (tk.pc = "done" /\ tk.result.kind \notin
                              {"TransportError", "ProtocolError"})
                            => /\ tk.block # None
                               /\ Len(tk.block.v.regs) = m.length
                               /\ (n = 0 /\ m.length = 0) \/
                                  (n > 0 /\ tk.log[n].address + tk.log[n].count
                                             = m.data_address + m.length)

\* C4's case: a model of the scan result was read in several physical reads
Wit_C4 ==
    \E t \in TaskIds :
        /\ task[t].op = "read_model" /\ task[t].pc = "done"
        /\ task[t].result.kind = "ok"
        /\ Len(task[t].log) >= 2

\* the physical reads of the _read call number lr
PartsOf(tk, lr) == LET Of(e) == e.lr = lr IN SelectSeq(tk.log, Of)

\* C5: the k-th physical read (k = 0, 1, ..) of a logical read of n
\* registers at a is at a + 125 k for min(125, n - 125 k) registers, never 0
\* and never more than 125; reads are issued one at a time; a returned block
\* of n registers took ceil(n / 125) reads and is their parts in issue order.
Thm_C5_Chunking ==
    \A t \in TaskIds :
        LET tk == task[t]
            reads == {x \in 1..Len(tk.log) : tk.log[x].lr > 0}
        IN  /\ \A x \in reads :
                  LET e == tk.log[x]
                      k == Cardinality({y \in 1..(x - 1) : tk.log[y].lr = e.lr})
                  IN  /\ e.address = e.la + 125 * k
                      /\ e.count = Min(125, e.ln - 125 * k)
                      /\ e.count \in 1..125
                      /\ x < Len(tk.log) => e.st # "pending"
                      /\ \A y \in 1..(x - 1) : tk.log[y].lr <= e.lr
            /\ tk.block # None =>
                  LET b == tk.block.v
                      parts == PartsOf(tk, b.lr)
                  IN  /\ Len(b.regs) = b.n
                      /\ Len(parts) = (b.n + 124) \div 125
                      /\ \A i \in 1..b.n :
                            b.regs[i] =
                               parts[((i - 1) \div 125) + 1].part[((i - 1) % 125) + 1]

\* C5's case: a block of 300 registers was returned
Wit_C5 ==
    \E t \in TaskIds :
        /\ task[t].block # None
        /\ task[t].block.v.n = 300
        /\ Len(PartsOf(task[t], task[t].block.v.lr)) = 3

\* C6: a physical read of read_model answered with fewer registers than
\* asked for ends the call with ProtocolError: no result, no further read.
Thm_C6_ShortRead ==
    \A t \in TaskIds :
        LET tk == task[t]
        IN  tk.op = "read_model" =>
              \A x \in 1..Len(tk.log) :
                  (tk.log[x].st # "pending" /\ tk.log[x].st # "fail"
                      /\ Len(tk.log[x].part) < tk.log[x].count)
                  => /\ x = Len(tk.log)
                     /\ tk.pc = "done"
                     /\ tk.result.kind = "ProtocolError"

\* C6's case: the second physical read of a read_model came back short
Wit_C6 ==
    \E t \in TaskIds :
        /\ task[t].op = "read_model"
        /\ Len(task[t].log) = 2
        /\ task[t].log[1].st = "ok"
        /\ task[t].log[2].st = "short"

\* the ids of the models of a scan result that have a schema in the catalog
Resolvable(scan) ==
    {scan.models[i].model_id : i \in 1..Len(scan.models)} \cap DOMAIN _by_id

\* C7: read_model(id) for an id the scan result has and the catalog has
\* not raises ModelNotFoundError (when its reads succeeded).
CE_C7_MissingSchema ==
    \A t \in TaskIds :
        LET tk == task[t]
        IN  (tk.op = "read_model" /\ tk.pc = "done" /\ tk.scan0 # None
                /\ FirstWith(tk.scan0.models, tk.arg) # 0
                /\ tk.arg \notin DOMAIN _by_id
                /\ tk.result.kind \notin {"TransportError", "ProtocolError"})
            => tk.result.kind = "ModelNotFoundError"

\* C8: read_all() never raises for a model without schema and issues no
\* read for one: every read is the _read of a model of the scan result that
\* has a schema; the map it returns has exactly the ids of those models.
Thm_C8_ReadAllSkips ==
    \A t \in TaskIds :
        LET tk == task[t]
        IN  (tk.op = "read_all" /\ tk.scan0 # None) =>
              LET ms == tk.scan0.models
              IN  /\ tk.scan = tk.scan0
                  /\ \A x \in 1..Len(tk.log) :
                        \E i \in 1..Len(ms) :
                            /\ ms[i].model_id \in DOMAIN _by_id
                            /\ ms[i].data_address = tk.log[x].la
                            /\ ms[i].length = tk.log[x].ln
                  /\ tk.pc = "done" =>
                        /\ tk.result.kind # "KeyError"
                        /\ tk.result.kind = "ok"
                              => DOMAIN tk.result.val = Resolvable(tk.scan0)

\* C8's case: read_all() returned where a model without schema precedes one
\* with a schema
Wit_C8 ==
    \E t \in TaskIds :
        LET tk == task[t]
        IN  /\ tk.op = "read_all" /\ tk.pc = "done" /\ tk.result.kind = "ok"
            /\ \E i, j \in 1..Len(tk.scan.models) :
                  /\ i < j
                  /\ tk.scan.models[i].model_id \notin DOMAIN _by_id
                  /\ tk.scan.models[j].model_id \in DOMAIN tk.result.val

Thm_C10_CloseKeepsScan ==
    \A t \in TaskIds :
        (task[t].op = "close" /\ task[t].pc = "done") => _scan = task[t].scan0

\* C10's case: close() raised with a scan result stored
Wit_C10 ==
    \E t \in TaskIds :
        /\ task[t].op = "close" /\ task[t].pc = "done"
        /\ task[t].result.kind = "TransportError"
        /\ _scan # None
        /\ Len(_scan.models) > 0

\* what a scan() call found on the device: the address of its last probe
\* and one model for each header it read before the end marker
Discovered(tk) ==
    LET probes == LogAt(tk, "probe")
        walk == LogAt(tk, "walk")
    IN  ScanResult(probes[Len(probes)].address,
                   [k \in 1..(Len(walk) - 1) |->
                       DiscoveredModel(walk[k].part[1], walk[k].part[2],
                                       walk[k].address + 2)])

\* C11: a scan() that returns, whatever result was stored before it, leaves
\* as stored result exactly the base and the models this call read from the
\* device; read_model and read_all read only registers of models of the
\* result stored when they run.
Thm_C11_ScanReplaces ==
    \A t \in TaskIds :
        LET tk == task[t]
        IN  /\ (tk.op = "scan" /\ tk.pc = "done" /\ tk.result.kind = "ok")
                  => _scan = Discovered(tk)
            /\ (IsRead(tk) /\ _scan # None)
                  => \A x \in 1..Len(tk.log) :
                        \E i \in 1..Len(_scan.models) :
                            /\ _scan.models[i].data_address = tk.log[x].la
                            /\ _scan.models[i].length = tk.log[x].ln

\* C11's case: a scan() returned on an engine that held another result
Wit_C11 ==
    \E t \in TaskIds :
        /\ task[t].op = "scan" /\ task[t].pc = "done"
        /\ task[t].result.kind = "ok"
        /\ task[t].scan0 # None
        /\ task[t].scan0.models # _scan.models
        /\ Len(task[t].scan0.models) > 0

\* a call that reads registers
Reads(tk) == tk.op \in {"scan", "read_model", "read_all"}

\* C12 as stated: a transport read that fails during scan(), read_model()
\* or read_all() is the call's last read, and the call ends with
\* TransportError.
CE_C12_FailureEndsCall ==
    \A t \in TaskIds :
        LET tk == task[t]
        IN  Reads(tk) =>
              \A x \in 1..Len(tk.log) :
                  tk.log[x].st = "fail" =>
                      /\ x = Len(tk.log)
                      /\ tk.pc = "done"
                      /\ tk.result.kind = "TransportError"

\* C12 (amended): no read is repeated; a transport read that fails in the
\* header walk of scan(), in read_model() or in read_all() is the call's
\* last read and the call ends with TransportError; a probe read of scan()
\* that fails is followed by the probe of the next candidate, and by
\* ScanError when it was the last candidate's.
Thm_C12_NoRetry ==
    \A t \in TaskIds :
        LET tk == task[t]
            n == Len(tk.log)
        IN  Reads(tk) =>
              \A x \in 1..n :
                  /\ x < n => tk.log[x + 1].address # tk.log[x].address
                  /\ tk.log[x].st = "fail" =>
                        IF tk.log[x].pc = "probe"
                        THEN IF x < n
                             THEN /\ x < Len(_base_candidates)
                                  /\ tk.log[x + 1].pc = "probe"
                                  /\ tk.log[x + 1].address = _base_candidates[x + 1]
                             ELSE /\ x = Len(_base_candidates)
                                  /\ tk.pc = "done"
                                  /\ tk.result.kind = "ScanError"
                        ELSE /\ x = n
                             /\ tk.pc = "done"
                             /\ tk.result.kind = "TransportError"

\* C12's case: a scan() whose first probe failed in the transport, that
\* found the signature at a later candidate and whose header walk then ended
\* on a read that failed
Wit_C12 ==
    \E t \in TaskIds :
        LET tk == task[t]
        IN  /\ tk.op = "scan" /\ tk.pc = "done"
            /\ Len(tk.log) >= 4
            /\ tk.log[1].st = "fail"
            /\ tk.log[Len(tk.log)].pc = "walk"
            /\ tk.log[Len(tk.log)].st = "fail"

\* C13: from its call to its end, whether it returns or raises, a
\* read_model() or read_all() leaves the stored scan result as it was when
\* the call was made, and works on that result.
Thm_C13_ReadsKeepScan ==
    \A t \in TaskIds :
        LET tk == task[t]
        IN  IsRead(tk) =>
              /\ _scan = tk.scan0
              /\ tk.scan \in {None, tk.scan0}

\* C13's case: a read_all() that raised after it had read a model in full
Wit_C13 ==
    \E t \in TaskIds :
        LET tk == task[t]
        IN  /\ tk.op = "read_all" /\ tk.pc = "done"
            /\ tk.result.kind \in {"TransportError", "ProtocolError"}
            /\ tk.nread >= 2
            /\ Len(_scan.models) >= 2

\* C14: connect() and close() each make one call to the transport, its
\* connect or its close; the call returns when that call returned and
\* raises TransportError when it raised.
Thm_C14_LinkCalls ==
    \A t \in TaskIds :
        LET tk == task[t]
        IN  tk.op \in {"connect", "close"} =>
              /\ tk.pc = "done"
              /\ Len(tk.log) = 1
              /\ tk.log[1].pc = tk.op
              /\ tk.log[1].st \in {"ok", "fail"}
              /\ tk.result.kind =
                    IF tk.log[1].st = "ok" THEN "ok" ELSE "TransportError"

\* C14's case: a connect() whose transport call raised
Wit_C14 ==
    \E t \in TaskIds :
        /\ task[t].op = "connect" /\ task[t].pc = "done"
        /\ task[t].log[1].st = "fail"
        /\ ~connected

\* ------------------------------------------------------------------------
\* Direct calls of decode_value and of SunSpecParser.parse
\* ------------------------------------------------------------------------

\* register values: zero, one, the largest positive 16-bit value, and the
\* two sentinel words 0x8000 and 0xFFFF
RegVals == {0, 1, 32767, INVALID_INT16, INVALID_UINT16}

\* decode_value(typ, regs) for every fixed-width type over four registers
DecodeInputs ==
    {[fn |-> "decode_value", typ |-> typ, regs |-> <<a, b, c, d>>,
      done |-> FALSE, out |-> None] :
        typ \in DECODERS, a \in RegVals, b \in RegVals, c \in RegVals,
        d \in RegVals}

\* the call is made
DecodeValueCall ==
    /\ call.fn = "decode_value"
    /\ ~call.done
    /\ call' = [call EXCEPT !.done = TRUE,
                            !.out = decode_value(call.typ, call.regs, None)]
    /\ UNCHANGED <<_scan, _base_candidates, mem, task, connected, scanned,
                   faults, updates>>

\* bounds of the strings packed: characters of s, bytes of the budget
MaxStr == 3

MaxSize == 4

\* NUL, space, "A", "B"
Chars == {0, 32, 65, 66}

Strings == UNION {[1..n -> Chars] : n \in 0..MaxStr}

\* _pack_string(s, size) of the parser tests: s NUL-padded or cut to size
\* bytes, two bytes a register, high byte first
pack_string(s, size) ==
    LET bs == [i \in 1..size |-> IF i <= Len(s) THEN s[i] ELSE 0]
    IN  [k \in 1..((size + 1) \div 2) |->
            bs[2 * k - 1] * 256 + (IF 2 * k <= size THEN bs[2 * k] ELSE 0)]

\* decode_string(_pack_string(s, size), size)
StringInputs ==
    {[fn |-> "decode_string", s |-> s, size |-> size,
      regs |-> pack_string(s, size), done |-> FALSE, out |-> None] :
        s \in Strings, size \in 0..MaxSize}

DecodeStringCall ==
    /\ call.fn = "decode_string"
    /\ ~call.done
    /\ call' = [call EXCEPT !.done = TRUE,
                            !.out = decode_string(call.regs, call.size)]
    /\ UNCHANGED <<_scan, _base_candidates, mem, task, connected, scanned,
                   faults, updates>>

\* the model of test_parser_basic_types_and_sf
ModelBasic ==
    ModelDef(999, "test",
        <<GroupDef("g",
            <<PointDef("Label", "string", Some(8), None, None, Some("Label")),
              PointDef("A_SF", "sunssf", None, None, None, None),
              PointDef("A", "int16", None, Some("A_SF"), Some("A"), None),
              PointDef("U", "uint16", None, None, None, Some("Unsigned")),
              PointDef("I", "int16", None, None, None, Some("Signed"))>>,
            FALSE, None)>>)

\* the model of test_parser_repeating_group with the count point N of type
\* ntype and the repeating group counted by the point named cf
CountModel(ntype, cf) ==
    ModelDef(160, "mppt_test",
        <<GroupDef("scales",
            <<PointDef("DCA_SF", "sunssf", None, None, None, None),
              PointDef("DCV_SF", "sunssf", None, None, None, None),
              PointDef("DCW_SF", "sunssf", None, None, None, None),
              PointDef("N", ntype, IF ntype = "string" THEN Some(2) ELSE None,
                       None, None, None)>>,
            FALSE, None),
          GroupDef("mppt",
            <<PointDef("DCA", "uint16", None, Some("DCA_SF"), None, None),
              PointDef("DCV", "uint16", None, Some("DCV_SF"), None, None),
              PointDef("DCW", "uint16", None, Some("DCW_SF"), None, None)>>,
            TRUE, Some(cf))>>)

\* a model whose scale factor V_SF is declared in the first group after a
\* point that refers to it, and referred to again in the second group, next
\* to a reference to a scale factor that no point declares
ModelShared ==
    ModelDef(700, "shared",
        <<GroupDef("first",
            <<PointDef("V", "uint16", None, Some("V_SF"), Some("V"), None),
              PointDef("V_SF", "sunssf", None, None, None, None)>>,
            FALSE, None),
          GroupDef("second",
            <<PointDef("W", "uint16", None, Some("V_SF"), Some("W"), None),
              PointDef("X", "uint16", None, Some("X_SF"), None, None)>>,
            FALSE, None)>>)

\* scale factor registers: -1, 0, 2, 400 and the sentinel
SfWords == {WORD - 1, 0, 2, 400, INVALID_INT16}

\* N registers: 0, 1, 2, 3, the two sentinels (0xFFFF is -1 as int16), "A "
CountWords == {0, 1, 2, 3, INVALID_INT16, WORD - 1, 65 * 256 + 32}

\* the two MPPT triplets of test_parser_repeating_group
Triplets == <<123, 300, 350, 456, 310, 360>>

\* a model that refers to the scale factor V_SF and does not declare it
ModelLater ==
    ModelDef(701, "later",
        <<GroupDef("only",
            <<PointDef("W", "uint16", None, Some("V_SF"), Some("W"), None)>>,
            FALSE, None)>>)

\* a model with pad points: of the default size, of 2 registers, of none,
\* and of 3 registers behind the last point
ModelPad ==
    ModelDef(702, "pads",
        <<GroupDef("g",
            <<PointDef("U1", "uint16", None, None, None, None),
              PointDef("Pad", "pad", None, None, None, None),
              PointDef("Pad2", "pad", Some(2), None, None, None),
              PointDef("Pad0", "pad", Some(0), None, None, None),
              PointDef("U2", "uint16", None, None, None, None),
              PointDef("Pad3", "pad", Some(3), None, None, None)>>,
            FALSE, None)>>)

\* a model whose string points carry the optional attributes: Name, 3 bytes,
\* with units and a reference to the scale factor before it; Free, without
\* size; then a number
ModelStr ==
    ModelDef(703, "strings",
        <<GroupDef("g",
            <<PointDef("S_SF", "sunssf", None, None, None, None),
              PointDef("Name", "string", Some(3), Some("S_SF"), Some("V"),
                       Some("Name")),
              PointDef("Free", "string", None, None, None, None),
              PointDef("T", "uint16", None, None, None, None)>>,
            FALSE, None)>>)

\* a model with a point of the unknown type float32: behind the point N of
\* the first group (where = "after"), or in the group repeated N times
BadModel(where) ==
    ModelDef(704, "bad",
        <<GroupDef("head",
            <<PointDef("N", "uint16", None, None, None, None)>>
            \o (IF where = "after"
                THEN <<PointDef("Bad", "float32", None, None, None, None)>>
                ELSE << >>),
            FALSE, None),
          GroupDef("rep",
            <<PointDef("R", "uint16", None, None, None, None)>>
            \o (IF where = "repeat"
                THEN <<PointDef("Bad", "float32", None, None, None, None)>>
                ELSE << >>),
            TRUE, Some("N"))>>)

\* prev: the locals of the parse call made before this one on the same parser
ParseCallOf(model, regs) ==
    [fn |-> "parse", model |-> model, regs |-> regs, done |-> FALSE,
     out |-> None, ps |-> None, prev |-> None]

ParseInputs ==
    {ParseCallOf(ModelBasic,
                 pack_string(<<65, 66, 67, 68>>, 8) \o <<sf, a, u, i>>) :
        sf \in SfWords, a \in {200, 0, WORD - 1, INVALID_INT16},
        u \in {7, INVALID_UINT16}, i \in {5, INVALID_INT16}}
    \cup
    {ParseCallOf(CountModel(ntype, cf), <<sf, 0, 0, n>> \o Triplets) :
        ntype \in {"uint16", "int16", "string"}, cf \in {"N", "M"},
        sf \in SfWords, n \in CountWords}
    \cup
    {ParseCallOf(ModelShared, <<v, sf, w, 30>>) :
        v \in {10, INVALID_UINT16}, sf \in SfWords, w \in {20, INVALID_UINT16}}
    \cup
    {ParseCallOf(ModelPad, <<u1, 9, 9, 9, u2>>) :
        u1 \in {7, INVALID_UINT16}, u2 \in {8, INVALID_UINT16}}
    \cup
    {ParseCallOf(ModelStr, <<sf, 65 * 256 + 66, c * 256 + 66, 5>>) :
        sf \in SfWords, c \in {0, 32, 67}}
    \cup
    {ParseCallOf(BadModel(where), <<n, 5, 6>>) :
        where \in {"after", "repeat"}, n \in {0, 1, 2, INVALID_UINT16}}

\* SunSpecParser().parse(model, regs); ps keeps the locals of the call (pos,
\* points_out, scale_map) as they were when it returned or raised
ParseCall ==
    /\ call.fn = "parse"
    /\ ~call.done
    /\ call' = [call EXCEPT
                  !.done = TRUE,
                  !.out = parse(call.model, call.regs),
                  !.ps = parse_groups(call.model.groups, 1, call.regs, ParseInit)]
    /\ UNCHANGED <<_scan, _base_candidates, mem, task, connected, scanned,
                   faults, updates>>

\* the same parser parses a second model, as read_all does for each model
ParseAgain ==
    /\ call.fn = "parse"
    /\ call.done
    /\ call.model = ModelShared
    /\ LET regs == <<call.regs[3]>>
       IN  call' = [ParseCallOf(ModelLater, regs) EXCEPT
                      !.done = TRUE,
                      !.out = parse(ModelLater, regs),
                      !.ps = parse_groups(ModelLater.groups, 1, regs, ParseInit),
                      !.prev = call.ps]
    /\ UNCHANGED <<_scan, _base_candidates, mem, task, connected, scanned,
                   faults, updates>>

InitCalls ==
    /\ call \in DecodeInputs \cup StringInputs \cup ParseInputs
    /\ _scan = None
    /\ _base_candidates = DefaultCandidates
    /\ mem = ImageNone
    /\ task = [t \in TaskIds |-> Idle]
    /\ connected = FALSE
    /\ scanned = "no"
    /\ faults = 0
    /\ updates = 0

NextCalls == DecodeValueCall \/ DecodeStringCall \/ ParseCall \/ ParseAgain

SpecCalls == InitCalls /\ [][NextCalls]_vars

\* ------------------------------------------------------------------------
\* Properties of the decoders and of the parser
\* ------------------------------------------------------------------------

\* registers a fixed-width type takes
Width(typ) ==
    IF typ \in {"int32", "uint32", "acc32"} THEN 2
    ELSE IF typ \in {"int64", "uint64", "acc64"} THEN 4
    ELSE 1

IsSigned(typ) == typ \in {"int16", "sunssf", "int32", "int64"}

\* the sentinel pattern of a type: 0x8000 then zeros, or all ones
Sentinel(typ) ==
    [i \in 1..Width(typ) |->
        IF IsSigned(typ) THEN (IF i = 1 THEN 32768 ELSE 0) ELSE 65535]

\* m + w = 2^(16 * Len(w)) on big-endian 16-bit digits
SumIsPower(m, w) ==
    LET n == Len(w)
        c[i \in 1..(n + 1)] ==
            IF i = n + 1 THEN 0 ELSE (m[i] + w[i] + c[i + 1]) \div WORD
    IN  /\ Len(m) = n
        /\ \A i \in 1..n : (m[i] + w[i] + c[i + 1]) % WORD = 0
        /\ c[1] = 1

\* v is the value of the big-endian pattern w read as typ
ValueOf(typ, w, v) ==
    /\ v # None
    /\ IsInt(v)
    /\ IF IsSigned(typ) /\ w[1] >= 32768
       THEN v.neg /\ SumIsPower(v.mag, w)
       ELSE ~v.neg /\ v.mag = w

\* C15: decode_value of a fixed-width numeric type returns None exactly
\* when the registers it takes hold the type's sentinel, otherwise their
\* big-endian value, two's complement for the signed types; regs_used is the
\* type's width, 1, 2 or 4, in both cases.
Thm_C15_Sentinels ==
    (call.fn = "decode_value" /\ call.done) =>
        LET w == SubSeq(call.regs, 1, Width(call.typ))
        IN  /\ call.out.err = ""
            /\ call.out.regs_used = Width(call.typ)
            /\ (call.out.value = None) <=> (w = Sentinel(call.typ))
            /\ w # Sentinel(call.typ) => ValueOf(call.typ, w, call.out.value)

\* C15's case: an int64 one above its sentinel, -(2^63 - 1)
Wit_C15 ==
    /\ call.fn = "decode_value" /\ call.done
    /\ call.typ = "int64"
    /\ call.regs = <<32768, 0, 0, 1>>
    /\ call.out.value = IntV(TRUE, <<32767, 65535, 65535, 65535>>)

\* v is t without its trailing NUL and space characters
IsTrimOf(v, t) ==
    /\ Len(v) <= Len(t)
    /\ v = SubSeq(t, 1, Len(v))
    /\ Len(v) > 0 => v[Len(v)] \notin {0, 32}
    /\ \A i \in (Len(v) + 1)..Len(t) : t[i] \in {0, 32}

\* C16: decode_string(_pack_string(s, L), L) takes ceil(L / 2) registers,
\* all that were packed, and returns s cut to L characters without its
\* trailing NUL and space characters: a string, empty when nothing else is
\* left, never None.
Thm_C16_StringRoundTrip ==
    (call.fn = "decode_string" /\ call.done) =>
        /\ call.out.err = ""
        /\ call.out.regs_used = (call.size + 1) \div 2
        /\ call.out.regs_used = Len(call.regs)
        /\ call.out.value # None
        /\ call.out.value.k = "str"
        /\ IsTrimOf(call.out.value.s, Prefix(call.s, call.size))

\* C16's case: "A B" packed into 2 bytes decodes to "A"
Wit_C16 ==
    /\ call.fn = "decode_string" /\ call.done
    /\ call.s = <<65, 32, 66>>
    /\ call.size = 2
    /\ call.out.value = StrV(<<65>>)

\* a register read as a signed 16-bit number
Signed16(w) == IF w >= 32768 THEN w - WORD ELSE w

\* C17 as stated: a numeric point whose raw value is present and whose sfref
\* names a sunssf point decoded as present with exponent sf is emitted with
\* raw unchanged, cvalue = raw * 10^sf and precision = max(0, -sf).  Here the
\* point A of the basic test model, after its scale factor A_SF.
CE_C17_Scaled ==
    (call.fn = "parse" /\ call.done /\ call.model = ModelBasic
        /\ call.regs[5] # INVALID_INT16 /\ call.regs[6] # INVALID_INT16)
    => /\ call.out.kind = "ok"
       /\ "A" \in DOMAIN call.out.val.points
       /\ LET pv == call.out.val.points["A"]
              sf == Signed16(call.regs[5])
          IN  /\ ValueOf("int16", <<call.regs[6]>>, pv.raw)
              /\ pv.cvalue = [k |-> "float", neg |-> pv.raw.neg,
                              mag |-> pv.raw.mag, e |-> sf]
              /\ pv.precision = Some(Max(0, 0 - sf))

\* the points of the repeating group of CountModel
MpptNames == <<"DCA", "DCV", "DCW">>

\* the PointValue fields of a numeric point read from register w, unsigned,
\* scaled by the scale factor register sfw
ScaledAs(pv, w, sfw) ==
    /\ pv.raw = IntV(FALSE, <<w>>)
    /\ IF sfw = INVALID_INT16
       THEN pv.cvalue = pv.raw /\ pv.precision = None
       ELSE /\ pv.cvalue = [k |-> "float", neg |-> FALSE, mag |-> <<w>>,
                            e |-> Signed16(sfw)]
            /\ pv.precision = Some(Max(0, 0 - Signed16(sfw)))

\* C18: a repeating group replayed n >= 1 times leaves, under each of its
\* point names, the value decoded in the n-th pass, scaled by the scale
\* factor in force; no other key is added for the earlier passes.
Thm_C18_LastIteration ==
    (call.fn = "parse" /\ call.done
        /\ call.model \in {CountModel("uint16", "N"), CountModel("int16", "N")}
        /\ call.regs[4] \in 1..2
        /\ Signed16(call.regs[1]) <= 308)
    => /\ call.out.kind = "ok"
       /\ DOMAIN call.out.val.points =
             {"DCA_SF", "DCV_SF", "DCW_SF", "N", "DCA", "DCV", "DCW"}
       /\ \A j \in 1..3 :
             ScaledAs(call.out.val.points[MpptNames[j]],
                      call.regs[4 + 3 * (call.regs[4] - 1) + j],
                      call.regs[j])

\* C18's case: the two triplets of the test, DCA = 456 scaled by -1
Wit_C18 ==
    /\ call.fn = "parse" /\ call.done
    /\ call.model = CountModel("uint16", "N")
    /\ call.regs = <<65535, 0, 0, 2, 123, 300, 350, 456, 310, 360>>
    /\ call.out.kind = "ok"
    /\ call.out.val.points["DCA"].raw = IntV(FALSE, <<456>>)
    /\ call.out.val.points["DCA"].cvalue.e = 0 - 1

\* a parse of CountModel(ntype, cf) has returned or raised
CountCall(ntype, cf) ==
    call.fn = "parse" /\ call.done /\ call.model = CountModel(ntype, cf)

\* the count point N is decoded as absent
CountAbsent(ntype, w) ==
    \/ ntype = "uint16" /\ w = INVALID_UINT16
    \/ ntype = "int16" /\ w = INVALID_INT16

\* int(raw) of the count point N
CountOf(ntype, w) == IF ntype = "int16" THEN Signed16(w) ELSE w

\* the group was processed 0 times: parse returned with the cursor behind
\* the 4 registers of the first group and no point of the group emitted
Skipped ==
    /\ call.out.kind = "ok"
    /\ call.ps.pos = 4
    /\ DOMAIN call.out.val.points \cap {"DCA", "DCV", "DCW"} = {}

\* C19 as stated: with no entry for count_field or an absent raw value the
\* group is skipped; otherwise it is processed int(raw) times and the cursor
\* advances by int(raw) times the group's 3 registers.
CE_C19_RepeatCount ==
    \A ntype \in {"uint16", "int16"}, cf \in {"N", "M"} :
        CountCall(ntype, cf) =>
            IF cf = "M" \/ CountAbsent(ntype, call.regs[4])
            THEN Skipped
            ELSE call.ps.pos = 4 + 3 * CountOf(ntype, call.regs[4])

\* C19 (amended): with no entry for count_field or an absent raw value, and
\* also with a count of 0 or less, the group is skipped: no pass, no point,
\* no error, the cursor stays.  With a count n >= 1 the group is processed n
\* times and the cursor advances by 3 * n when the registers suffice, and
\* parse raises IndexError when they run out; a count entry whose raw value
\* is a string raises AssertionError.  (Scale factors above 308, which make
\* the scaling of a pass raise, are left aside.)
Thm_C19_RepeatCount ==
    \A ntype \in {"uint16", "int16", "string"}, cf \in {"N", "M"} :
        (CountCall(ntype, cf) /\ Signed16(call.regs[1]) <= 308) =>
            LET n == CountOf(ntype, call.regs[4])
            IN  IF cf = "M" \/ CountAbsent(ntype, call.regs[4]) THEN Skipped
                ELSE IF ntype = "string"
                THEN call.out.kind = "AssertionError"
                ELSE IF n <= 0 THEN Skipped
                ELSE IF 4 + 3 * n <= Len(call.regs)
                THEN /\ call.out.kind = "ok"
                     /\ call.ps.pos = 4 + 3 * n
                     /\ {"DCA", "DCV", "DCW"} \subseteq DOMAIN call.out.val.points
                ELSE call.out.kind = "IndexError"

\* C19's case: the int16 count -1, for which the group is skipped
Wit_C19 ==
    /\ CountCall("int16", "N")
    /\ call.regs[4] = WORD - 1
    /\ call.regs[1] = 0
    /\ Skipped

\* the PointValue fields of a uint16 point read from register w and not
\* scaled
Unscaled(pv, w) ==
    /\ pv.raw = IF w = INVALID_UINT16 THEN None ELSE IntV(FALSE, <<w>>)
    /\ pv.cvalue = pv.raw
    /\ pv.precision = None

\* C20: the scale-factor map is shared by the groups of one parse call and
\* starts empty in each call.  In ModelShared the point W of the second
\* group is scaled by V_SF of the first group; V, decoded before V_SF, and
\* X, whose scale factor no point declares, get cvalue = raw and no
\* precision, as does W when V_SF holds the sentinel; W of ModelLater,
\* parsed next by the same parser, is not scaled by the V_SF of the previous
\* call.  No error is raised.  (Scale factors above 308 are left aside.)
Thm_C20_ScaleMap ==
    /\ (call.fn = "parse" /\ call.done /\ call.model = ModelShared
           /\ Signed16(call.regs[2]) <= 308)
       => /\ call.out.kind = "ok"
          /\ DOMAIN call.ps.scale_map =
                IF call.regs[2] = INVALID_INT16 THEN {} ELSE {"V_SF"}
          /\ Unscaled(call.out.val.points["V"], call.regs[1])
          /\ Unscaled(call.out.val.points["X"], call.regs[4])
          /\ IF call.regs[3] = INVALID_UINT16
             THEN call.out.val.points["W"].raw = None
             ELSE ScaledAs(call.out.val.points["W"], call.regs[3], call.regs[2])
    /\ (call.fn = "parse" /\ call.done /\ call.model = ModelLater)
       => /\ call.out.kind = "ok"
          /\ call.ps.scale_map = << >>
          /\ Unscaled(call.out.val.points["W"], call.regs[1])

\* C20's case: V_SF = -1 scaled W = 20 of the second group in one call, and
\* does not scale W of the model parsed next
Wit_C20 ==
    /\ call.fn = "parse" /\ call.done /\ call.model = ModelLater
    /\ call.prev.scale_map = [x \in {"V_SF"} |-> 0 - 1]
    /\ call.prev.points_out["W"].cvalue.e = 0 - 1
    /\ call.prev.points_out["V"].cvalue = IntV(FALSE, <<10>>)
    /\ call.out.val.points["W"].cvalue = IntV(FALSE, <<20>>)

\* C21 as stated: a numeric point whose raw value is absent is emitted with
\* cvalue absent and precision none, whether or not it has an sfref and that
\* scale factor is in the map.  Here the points A (sfref A_SF), U and I (no
\* sfref) of the basic test model.
CE_C21_AbsentRaw ==
    (call.fn = "parse" /\ call.done /\ call.model = ModelBasic
        /\ call.out.kind = "ok")
    => \A x \in {<<"A", 6, INVALID_INT16>>, <<"U", 7, INVALID_UINT16>>,
                 <<"I", 8, INVALID_INT16>>} :
          call.regs[x[2]] = x[3] =>
              LET pv == call.out.val.points[x[1]]
              IN  /\ pv.raw = None
                  /\ pv.cvalue = None
                  /\ pv.precision = None

\* the names of the non-pad points of the groups of a model that satisfy Sel
NamesOf(model, Sel(_)) ==
    UNION {{model.groups[g].points[i].name :
               i \in {i \in 1..Len(model.groups[g].points) :
                         model.groups[g].points[i].type # "pad"}} :
             g \in {g \in 1..Len(model.groups) : Sel(model.groups[g])}}

AnyGroup(g) == TRUE

Single(g) == ~g.repeating

\* C22: a pad point moves the cursor by its size in registers, 1 without a
\* size, and leaves no entry: in ModelPad U2 is read from the fifth
\* register and the cursor ends at 8.  The point map of every parse that
\* returns has an entry for each non-pad point of the groups processed once
\* and no key that is not the name of a non-pad point of the model.
Thm_C22_PadAndKeys ==
    /\ (call.fn = "parse" /\ call.done /\ call.model = ModelPad)
       => /\ call.out.kind = "ok"
          /\ DOMAIN call.out.val.points = {"U1", "U2"}
          /\ Unscaled(call.out.val.points["U1"], call.regs[1])
          /\ Unscaled(call.out.val.points["U2"], call.regs[5])
          /\ call.ps.pos = 8
    /\ (call.fn = "parse" /\ call.done /\ call.out.kind = "ok")
       => /\ DOMAIN call.out.val.points \subseteq NamesOf(call.model, AnyGroup)
          /\ NamesOf(call.model, Single) \subseteq DOMAIN call.out.val.points

\* C22's case: U2 = 8 read behind the pads
Wit_C22 ==
    /\ call.fn = "parse" /\ call.done /\ call.model = ModelPad
    /\ call.regs = <<7, 9, 9, 9, 8>>
    /\ call.out.val.points["U2"].raw = IntV(FALSE, <<8>>)
    /\ call.ps.pos = 8

\* C23 as stated: a string point is emitted with raw = cvalue = the decoded
\* string, units none and precision none, whatever units and sf the schema
\* declares on it, and the cursor advances by ceil(size / 2) registers.
\* Here Name of ModelStr, 3 bytes in the registers 2 and 3, with units "V"
\* and sf S_SF.
CE_C23_StringPoint ==
    (call.fn = "parse" /\ call.done /\ call.model = ModelStr)
    => /\ call.out.kind = "ok"
       /\ LET pv == call.out.val.points["Name"]
          IN  /\ pv.raw.k = "str"
              /\ IsTrimOf(pv.raw.s, <<65, 66, call.regs[3] \div 256>>)
              /\ pv.cvalue = pv.raw
              /\ pv.units = None
              /\ pv.precision = None
       /\ Unscaled(call.out.val.points["T"], call.regs[4])
       /\ call.ps.pos = 4

\* C24 as stated: the parse of a model with a point of an unknown type
\* raises the schema error (ValueError, decode_value's "Unsupported SunSpec
\* type") and returns no result, wherever the point sits: behind other
\* points, or in a repeating group, whatever its count.
CE_C24_UnknownType ==
    \A where \in {"after", "repeat"} :
        (call.fn = "parse" /\ call.done /\ call.model = BadModel(where))
        => call.out.kind = "ValueError"

\* C25: a scan() that has not returned a result, still running or ended
\* with an exception at a probe or in the header walk, leaves the stored
\* scan result as it was when the call was made (none, or the previous one).
Thm_C25_FailedScanKeeps ==
    \A t \in {1} :
        LET tk == task[t]
        IN  (tk.op = "scan" /\ ~(tk.pc = "done" /\ tk.result.kind = "ok"))
            => /\ _scan = tk.scan0
               /\ (tk.scan0 = None) = (scanned # "yes")

\* C25's case: a scan() on an engine with a stored result raised in the
\* header walk after it had found models
Wit_C25 ==
    LET tk == task[1]
    IN  /\ tk.op = "scan" /\ tk.pc = "done"
        /\ tk.result.kind \in {"TransportError", "ProtocolError"}
        /\ Len(tk.models) >= 1
        /\ tk.scan0 # None
        /\ tk.models # tk.scan0.models

\* the address of the k-th header of the chain of a map at base
RECURSIVE HeaderAt(_, _, _)
HeaderAt(img, base, k) ==
    IF k = 1 THEN base + 2
    ELSE HeaderAt(img, base, k - 1) + 2 + img.chain[k - 1].len

\* what a scan of the whole map at base finds
ChainOf(img, base) ==
    ScanResult(base, [k \in 1..Len(img.chain) |->
                         DiscoveredModel(img.chain[k].id, img.chain[k].len,
                                         HeaderAt(img, base, k) + 2)])

\* the results of scanning some device to its end marker
Complete == {ChainOf(img, base) : img \in Images, base \in UNION {i.sig : i \in Images}}

\* C26: with scan() and the read operations interleaved at their awaits, a
\* read operation works from the scan result stored when it was called and
\* from nothing else: that result is a whole one (base and every model of
\* one map up to its end marker), every block it reads is a model of that
\* result, and read_all() returns the resolvable models of that result,
\* whatever scan() stores meanwhile.
Thm_C26_ReadsOneScan ==
    LET tk == task[2]
    IN  IsRead(tk) =>
          /\ tk.scan \in {None, tk.scan0}
          /\ tk.pc # "done" => tk.scan = tk.scan0
          /\ tk.scan0 = None => (tk.pc = "done" /\ tk.log = << >>)
          /\ tk.scan0 # None =>
                /\ tk.scan0 \in Complete
                /\ \A x \in 1..Len(tk.log) :
                      \E i \in 1..Len(tk.scan0.models) :
                          /\ tk.scan0.models[i].data_address = tk.log[x].la
                          /\ tk.scan0.models[i].length = tk.log[x].ln
                          /\ tk.op = "read_model"
                                => i = FirstWith(tk.scan0.models, tk.arg)
                /\ (tk.op = "read_all" /\ tk.pc = "done" /\ tk.result.kind = "ok")
                      => DOMAIN tk.result.val = Resolvable(tk.scan0)

\* C26's case: a read_all() returned the models of the result it captured
\* although a scan() running meanwhile had stored another one
Wit_C26 ==
    LET tk == task[2]
    IN  /\ tk.op = "read_all" /\ tk.pc = "done" /\ tk.result.kind = "ok"
        /\ tk.scan0 # None /\ _scan # tk.scan0
        /\ Len(tk.log) >= 1
        /\ Resolvable(tk.scan0) # Resolvable(_scan)

\* the registers of a discovered model on the device as it is
BlockOf(m) == [k \in 1..m.length |-> Mem(mem, m.data_address + k - 1)]

\* C27: on an unchanged device, read_all() returns for every model id what
\* read_model(id) returns: the parse of the first occurrence of the id in
\* the scanned chain.
CE_C27_SameOccurrence ==
    LET tk == task[1]
    IN  (tk.op = "read_all" /\ tk.pc = "done" /\ tk.result.kind = "ok"
            /\ tk.scan0 # None /\ updates = 0)
        => \A id \in DOMAIN tk.result.val :
              LET ms == tk.scan0.models
              IN  tk.result.val[id] =
                      parse(_by_id[id], BlockOf(ms[FirstWith(ms, id)])).val

\* C28: every scan() that was called ends, with a result or an exception.
CE_C28_ScanEnds ==
    (task[1].pc \in {"probe", "walk"}) ~> (task[1].pc = "done")

\* C29: every physical read the engine issues lies within the 16-bit
\* register space, and so does every data address a scan records.
CE_C29_AddressRange ==
    LET tk == task[1]
    IN  /\ \A k \in 1..Len(tk.log) :
              tk.log[k].pc \in {"probe", "walk", "read_model", "read_all"} =>
                  /\ 0 <= tk.log[k].address
                  /\ tk.log[k].address + tk.log[k].count - 1 <= WORD - 1
        /\ \A i \in 1..Len(tk.models) : tk.models[i].data_address \in 0..(WORD - 1)

\* a probe read that did not deliver 2 registers
FailedProbe(e) == e.st = "fail" \/ WrongCount(e)

\* C30 as stated: after a probe read that failed, in the transport or by
\* its register count, the next candidate is probed, and scan() raises
\* ScanError when it was the last candidate's.
CE_C30_EveryFailureSkips ==
    LET tk == task[1]
        probes == LogAt(tk, "probe")
        n == Len(probes)
    IN  tk.op = "scan" =>
          \A k \in 1..n :
              FailedProbe(probes[k]) =>
                  \/ k < n /\ probes[k + 1].address = _base_candidates[k + 1]
                  \/ /\ k = n /\ n = Len(_base_candidates)
                     /\ tk.pc = "done" /\ tk.result.kind = "ScanError"

\* C30 (amended): a probe read that fails in the transport counts as no
\* match: the next candidate is probed, or ScanError raised after the last;
\* a probe read answered with another number of registers than 2 ends
\* scan() at once with ProtocolError, whatever the candidates behind it
\* hold; ScanError is raised only when every candidate was probed and none
\* of the probes was answered with a wrong count.
Thm_C30_ProbeFailures ==
    LET tk == task[1]
        probes == LogAt(tk, "probe")
        n == Len(probes)
    IN  tk.op = "scan" =>
          /\ \A k \in 1..n :
                /\ probes[k].st = "fail" =>
                      \/ k < n /\ probes[k + 1].address = _base_candidates[k + 1]
                      \/ /\ k = n /\ n = Len(_base_candidates)
                         /\ tk.pc = "done" /\ tk.result.kind = "ScanError"
                /\ WrongCount(probes[k]) =>
                      /\ k = n /\ Len(tk.log) = n
                      /\ tk.pc = "done" /\ tk.result.kind = "ProtocolError"
                      /\ _scan = tk.scan0
          /\ (tk.pc = "done" /\ tk.result.kind = "ScanError") =>
                /\ n = Len(_base_candidates)
                /\ \A k \in 1..n : ~WrongCount(probes[k]) /\ ~Matched(probes[k])

\* C30's case: the first probe was answered with a wrong register count and
\* scan() ended with ProtocolError, the signature standing at the second
\* candidate
Wit_C30 ==
    LET tk == task[1]
        probes == LogAt(tk, "probe")
    IN  /\ tk.op = "scan" /\ tk.pc = "done"
        /\ tk.result.kind = "ProtocolError"
        /\ Len(probes) = 1 /\ WrongCount(probes[1])
        /\ _base_candidates[2] \in mem.sig

====
